---- MODULE Spec2Model ----
(***************************************************************************)
(* Retrieval core of AyurvaBot: RAGSystem (src/src/rag_system.py), its     *)
(* persisted FAISS index, the corpus fingerprint, corrective retrieval and *)
(* QueryProcessor (src/src/query_processor.py).                            *)
(*                                                                         *)
(* Python str values are TLA+ strings; a character is a string of length 1.*)
(***************************************************************************)
EXTENDS Integers, Sequences, FiniteSets, TLC

(***************************************************************************)
(* Strings                                                                 *)
(***************************************************************************)
Min(a, b) == IF a <= b THEN a ELSE b

Max(a, b) == IF a >= b THEN a ELSE b

\* s[:n]
Prefix(s, n) == SubSeq(s, 1, Min(n, Len(s)))

\* s[i] (1-based)
CharAt(s, i) == SubSeq(s, i, i)

RECURSIVE Rep(_, _)
\* c * n (by halving, so that long strings need only a shallow recursion)
Rep(c, n) ==
    IF n = 0 THEN ""
    ELSE LET h == Rep(c, n \div 2)
         IN IF n % 2 = 0 THEN h \o h ELSE h \o h \o c

UpperChars == <<"A", "B", "C", "D", "E", "F", "G", "H", "I", "J", "K", "L", "M",
                "N", "O", "P", "Q", "R", "S", "T", "U", "V", "W", "X", "Y", "Z">>

LowerChars == <<"a", "b", "c", "d", "e", "f", "g", "h", "i", "j", "k", "l", "m",
                "n", "o", "p", "q", "r", "s", "t", "u", "v", "w", "x", "y", "z">>

Digits == {"0", "1", "2", "3", "4", "5", "6", "7", "8", "9"}

IsUpper(c) == \E i \in 1..26 : UpperChars[i] = c

IsLower(c) == \E i \in 1..26 : LowerChars[i] = c

LowerChar(c) == IF IsUpper(c) THEN LowerChars[CHOOSE i \in 1..26 : UpperChars[i] = c] ELSE c

UpperChar(c) == IF IsLower(c) THEN UpperChars[CHOOSE i \in 1..26 : LowerChars[i] = c] ELSE c

\* Python's \s for the characters that occur here
IsSpace(c) == c \in {" ", "\t", "\n"}

\* STOP_CHARS_PATTERN = [^a-zA-Z0-9\s-]
IsStopChar(c) == ~(IsUpper(c) \/ IsLower(c) \/ c \in Digits \/ IsSpace(c) \/ c = "-")

\* the per-character conversions: str.lower, str.upper,
\* STOP_CHARS_PATTERN.sub(" ", .) and encode('utf-8', errors='ignore'), which
\* keeps every character except a lone surrogate (written "^" here)
ConvChar(how, c) ==
    IF how = "lower" THEN LowerChar(c)
    ELSE IF how = "upper" THEN UpperChar(c)
    ELSE IF how = "stop" THEN (IF IsStopChar(c) THEN " " ELSE c)
    ELSE (IF c = "^" THEN "" ELSE c)

RECURSIVE MapChars(_, _, _, _)
\* the conversion applied to s[lo..hi], character by character (by halving)
MapChars(s, lo, hi, how) ==
    IF lo > hi THEN ""
    ELSE IF lo = hi THEN ConvChar(how, CharAt(s, lo))
    ELSE LET mid == (lo + hi) \div 2
         IN MapChars(s, lo, mid, how) \o MapChars(s, mid + 1, hi, how)

\* str.lower()
Lower(s) == MapChars(s, 1, Len(s), "lower")

\* str.upper()
Upper(s) == MapChars(s, 1, Len(s), "upper")

\* `w in t` for strings
IsSubstring(w, t) ==
    \E i \in 1..(Len(t) - Len(w) + 1) : SubSeq(t, i, i + Len(w) - 1) = w

\* the positions where a maximal run of non-whitespace starts
WordStarts(s) ==
    {i \in 1..Len(s) : ~IsSpace(CharAt(s, i)) /\ (i = 1 \/ IsSpace(CharAt(s, i - 1)))}

\* the positions where a maximal run of non-whitespace ends
WordEnds(s) ==
    {i \in 1..Len(s) : ~IsSpace(CharAt(s, i)) /\ (i = Len(s) \/ IsSpace(CharAt(s, i + 1)))}

RECURSIVE Ascending(_, _, _)
\* the members of a set of positions within lo..hi in ascending order (by
\* halving, so that long strings need only a shallow recursion)
Ascending(positions, lo, hi) ==
    IF lo > hi THEN <<>>
    ELSE IF lo = hi THEN (IF lo \in positions THEN <<lo>> ELSE <<>>)
    ELSE Ascending(positions, lo, (lo + hi) \div 2)
         \o Ascending(positions, (lo + hi) \div 2 + 1, hi)

\* the words that start and end at the given positions, pairwise
WordsAt(s, starts, ends) == [k \in 1..Len(starts) |-> SubSeq(s, starts[k], ends[k])]

\* the words delimited by the given start and end positions, leftmost first
SplitFrom(s, starts, ends) ==
    WordsAt(s, Ascending(starts, 1, Len(s)), Ascending(ends, 1, Len(s)))

\* str.split(): the maximal runs of non-whitespace
Split(s) == SplitFrom(s, WordStarts(s), WordEnds(s))

RECURSIVE JoinRange(_, _, _, _)
\* sep.join(parts[a-1:b]) (by halving, so that long lists need only a
\* shallow recursion)
JoinRange(sep, parts, a, b) ==
    IF a > b THEN ""
    ELSE IF a = b THEN parts[a]
    ELSE JoinRange(sep, parts, a, (a + b) \div 2) \o sep
         \o JoinRange(sep, parts, (a + b) \div 2 + 1, b)

\* sep.join(parts)
Join(sep, parts) == JoinRange(sep, parts, 1, Len(parts))

\* str.strip()
Strip(s) ==
    LET inked == {i \in 1..Len(s) : ~IsSpace(CharAt(s, i))}
    IN IF inked = {} THEN ""
       ELSE SubSeq(s, CHOOSE i \in inked : \A j \in inked : i <= j,
                      CHOOSE i \in inked : \A j \in inked : i >= j)

\* list[:n]
Take(seq, n) == SubSeq(seq, 1, Min(n, Len(seq)))

(***************************************************************************)
(* Corpus fingerprint                                                      *)
(***************************************************************************)
\* text.encode('utf-8', errors='ignore')
EncodeIgnore(s) == MapChars(s, 1, Len(s), "encode")

\* the leading characters of a chunk that feed the hasher
FingerprintChars == 500

\* default of first_n: the leading chunks that feed the hasher
FingerprintChunks == 200

RECURSIVE HasherUpdates(_, _, _)
\* the byte stream after hasher.update(text[:500].encode(...)) for each of
\* texts[lo..hi] in turn (by halving)
HasherUpdates(texts, lo, hi) ==
    IF lo > hi THEN ""
    ELSE IF lo = hi THEN EncodeIgnore(Prefix(texts[lo], FingerprintChars))
    ELSE LET mid == (lo + hi) \div 2
         IN HasherUpdates(texts, lo, mid) \o HasherUpdates(texts, mid + 1, hi)

\* hashlib.sha256().hexdigest(): collision-free on the byte stream it was fed
Sha256Hex(bytes) == <<"sha256", bytes>>

\* RAGSystem._compute_corpus_fingerprint
ComputeCorpusFingerprintBytes(chunks, model) ==
    HasherUpdates(chunks, 1, Min(FingerprintChunks, Len(chunks))) \o model

(***************************************************************************)
(* The environment of one deployment                                       *)
(***************************************************************************)
Models == {"sentence-transformers/all-MiniLM-L6-v2", "sentence-transformers/all-mpnet-base-v2"}

\* a text of more than 200 characters that two chunks start with
LongHead == Rep("fever ", 34)

\* the corpora load_knowledge_chunks can produce from the data on disk
CorpusA == <<"tulsi for fever", "arjuna for heart">>

\* the text of CorpusA with the chunk boundary lost
CorpusB == <<"tulsi for feverarjuna for heart">>

CorpusC ==
    <<LongHead \o "tulsi", "ginger tea for fever", LongHead \o "neem",
      "arjuna cardiac heart", "agni digestion">>

\* the corpora of the index-lifecycle specification
IndexCorpora == {CorpusA, CorpusB}

\* the corpora of the retrieval specification
RetrievalCorpora == {CorpusA, CorpusC}

Corpora == IndexCorpora \cup RetrievalCorpora

\* a chunk longer than the leading characters the hasher reads
LongChunk(tail) == Rep("a", FingerprintChars) \o tail

\* a corpus of one chunk more than the leading chunks the hasher reads
ManyChunks(lastText) ==
    [i \in 1..(FingerprintChunks + 1) |-> IF i <= FingerprintChunks THEN "tulsi" ELSE lastText]

\* the corpora of the fingerprint specification: pairs that differ inside
\* and outside the hashed part, in a chunk boundary, and in a lone surrogate
FingerprintCorpora ==
    {CorpusA, CorpusB, <<"tulsi for fever", "arjuna for hearts">>,
     <<LongChunk("x")>>, <<LongChunk("y")>>, ManyChunks("neem"), ManyChunks("amla"),
     <<"tulsi^">>, <<"tulsi">>}

\* _compute_corpus_fingerprint, computed once per corpus and model
FingerprintTable ==
    [c \in Corpora \cup FingerprintCorpora, m \in Models |->
        Sha256Hex(ComputeCorpusFingerprintBytes(c, m))]

ComputeCorpusFingerprint(chunks, model) ==
    IF chunks \in Corpora \cup FingerprintCorpora /\ model \in Models
    THEN FingerprintTable[chunks, model]
    ELSE Sha256Hex(ComputeCorpusFingerprintBytes(chunks, model))

(***************************************************************************)
(* State                                                                   *)
(***************************************************************************)
VARIABLES
    DEPENDENCIES_AVAILABLE, \* module flag: faiss / sentence_transformers imported
    config,                 \* EMBEDDING_MODEL, USE_HYBRID_RETRIEVAL
    hashSeed,               \* the interpreter's string-hash seed (fixed per process)
    enable_wordnet,         \* query_processor.enable_wordnet
    knowledge_chunks,       \* knowledge_base.knowledge_chunks: list of chunk texts
    document_chunks,        \* RAGSystem.document_chunks (each chunk by its text)
    sentence_transformer,   \* TRUE once the embedding model is loaded
    faiss_index,            \* RAGSystem.faiss_index
    hybrid_retriever,       \* RAGSystem.hybrid_retriever
    index_file,             \* config.FAISS_INDEX_PATH
    emb_file,               \* config.EMBEDDINGS_CACHE_PATH
    meta_file,              \* config.INDEX_METADATA_PATH
    last                    \* the latest call: its name, arguments and outcome

vars == <<DEPENDENCIES_AVAILABLE, config, hashSeed, enable_wordnet, knowledge_chunks,
          document_chunks, sentence_transformer, faiss_index, hybrid_retriever,
          index_file, emb_file, meta_file, last>>

\* Python None for an object-valued attribute
None == [kind |-> "none"]

\* a file that does not exist
Absent == [state |-> "absent"]

\* a file that exists but cannot be parsed (truncated or overwritten)
Corrupt == [state |-> "corrupt"]

\* a FAISS index holding one vector per text, embedded with `model`
Index(texts, model) == [kind |-> "index", texts |-> texts, model |-> model]

\* faiss_index.ntotal
NTotal(ix) == Len(ix.texts)

\* a readable file with the given content
File(content) == [state |-> "ok", content |-> content]

\* os.path.exists
Exists(f) == f.state # "absent"

(***************************************************************************)
(* Persisted index: load and save                                          *)
(***************************************************************************)
\* _load_existing_index without the comparison of ntotal with the rows
LoadSkippingCountCheck(cur_index, chunks, model, ixf, embf, metaf) ==
    IF ~(Exists(ixf) /\ Exists(embf) /\ Exists(metaf))
    THEN [outcome |-> "miss", faiss_index |-> cur_index]
    ELSE IF metaf.state = "corrupt"
    THEN [outcome |-> "miss", faiss_index |-> cur_index]
    ELSE IF metaf.content.fingerprint # ComputeCorpusFingerprint(chunks, model)
    THEN [outcome |-> "miss", faiss_index |-> cur_index]
    ELSE IF embf.state = "corrupt"
    THEN [outcome |-> "miss", faiss_index |-> cur_index]
    ELSE IF ixf.state = "corrupt"
    THEN [outcome |-> "miss", faiss_index |-> cur_index]
    ELSE [outcome |-> "hit", faiss_index |-> ixf.content]

\* RAGSystem._load_existing_index: the outcome ("hit", "miss" or "raise") and
\* the value the call leaves in self.faiss_index
_load_existing_index(cur_index, chunks, model, ixf, embf, metaf) ==
    IF ~(Exists(ixf) /\ Exists(embf) /\ Exists(metaf))
    THEN [outcome |-> "miss", faiss_index |-> cur_index]
    ELSE IF metaf.state = "corrupt"                      \* json.load raises: caught
    THEN [outcome |-> "miss", faiss_index |-> cur_index]
    ELSE IF metaf.content.fingerprint # ComputeCorpusFingerprint(chunks, model)
    THEN [outcome |-> "miss", faiss_index |-> cur_index]
    ELSE IF embf.state = "corrupt"                       \* np.load raises: caught
    THEN [outcome |-> "miss", faiss_index |-> cur_index]
    ELSE IF ixf.state = "corrupt"                        \* faiss.read_index raises: caught
    THEN [outcome |-> "miss", faiss_index |-> cur_index]
    ELSE IF NTotal(ixf.content) # embf.content.rows
    THEN [outcome |-> "miss", faiss_index |-> ixf.content]
    ELSE [outcome |-> "hit", faiss_index |-> ixf.content]

\* the ways one write of _save_index can end: completed, raised before the
\* file was touched, or raised leaving a truncated file
WriteOutcomes == {"ok", "untouched", "truncated"}

\* the file after one write attempt
Written(old, content, how) ==
    IF how = "ok" THEN File(content)
    ELSE IF how = "truncated" THEN Corrupt
    ELSE old

\* embeddings.shape[1] for the embedding models of this model
Dimension(model) == IF model = "sentence-transformers/all-MiniLM-L6-v2" THEN 384 ELSE 768

\* the metadata record _save_index writes
Meta(ix, fingerprint, model) ==
    [fingerprint |-> fingerprint, model |-> model, vectors |-> NTotal(ix),
     dimension |-> Dimension(model)]

\* RAGSystem._save_index: the three files after the call; w1, w2, w3 say how
\* the writes end, and the first write that raises ends the call (the except
\* clause swallows the error)
_save_index(ix, rows, fingerprint, model, ixf, embf, metaf, w1, w2, w3) ==
    LET f1 == Written(ixf, ix, w1)
        f2 == IF w1 = "ok" THEN Written(embf, [rows |-> rows], w2) ELSE embf
        f3 == IF w1 = "ok" /\ w2 = "ok"
              THEN Written(metaf, Meta(ix, fingerprint, model), w3) ELSE metaf
    IN [index_file |-> f1, emb_file |-> f2, meta_file |-> f3]

(***************************************************************************)
(* QueryProcessor                                                          *)
(***************************************************************************)
DOMAIN_SYNONYMS ==
    [fever |-> <<"pyrexia", "temperature", "jwara">>,
     heart |-> <<"cardiac", "cardiovascular">>,
     digestion |-> <<"stomach", "gastric", "agni">>,
     cough |-> <<"respiratory", "bronchial">>,
     immunity |-> <<"ojas", "resistance">>,
     detox |-> <<"panchakarma", "cleanse">>]

_ACRONYMS ==
    [BP |-> "blood pressure", GI |-> "gastrointestinal", CNS |-> "central nervous system"]

_POLYSEMY_HINTS ==
    [cold |-> <<"common cold", "low temperature">>,
     stress |-> <<"mental stress", "physiological stress">>,
     pressure |-> <<"blood pressure">>]

\* default of QueryProcessor.max_expansions
max_expansions == 4

\* the lemma names wn.synsets(term)[:2] yields for the terms of this model,
\* other than the term itself (WordNet 3.0)
WordnetLemmas(term) ==
    IF term = "fever" THEN {"febrility", "febricity", "pyrexia", "feverishness"}
    ELSE IF term = "heart" THEN {"pump", "ticker", "bosom"}
    ELSE IF term = "detailed" THEN {"elaborate", "elaborated"}
    ELSE IF term = "context" THEN {"linguistic context", "context of use", "circumstance",
                                   "setting"}
    ELSE {}

\* every string that is ever a member of a Python set in this model, in a
\* fixed order; a set's iteration order is derived from it and the hash seed
Vocabulary ==
    <<"pyrexia", "temperature", "jwara", "cardiac", "cardiovascular", "stomach",
      "gastric", "agni", "respiratory", "bronchial", "ojas", "resistance",
      "panchakarma", "cleanse", "febrility", "febricity", "feverishness", "pump",
      "ticker", "bosom", "elaborate", "elaborated", "linguistic context",
      "context of use", "circumstance", "setting", "fever", "heart", "digestion",
      "cough", "immunity", "detox">>

\* a prime above Len(Vocabulary): position * m mod HashPrime is a different
\* permutation of the vocabulary for every multiplier m in 1..HashPrime-1
HashPrime == 37

\* the multiplier that stands for each hash seed
HashMultipliers == <<1, 36, 19, 18, 7, 30>>

VocabPos(w) == CHOOSE i \in 1..Len(Vocabulary) : Vocabulary[i] = w

\* where the string lands in a hash table under the seed
HashSlot(w, seed) == (VocabPos(w) * HashMultipliers[seed]) % HashPrime

RECURSIVE ListOfSet(_, _)
\* list(S) for a Python set of strings: the iteration order follows the
\* strings' hash values, which depend on the process's hash seed
ListOfSet(S, seed) ==
    IF S = {} THEN <<>>
    ELSE LET w == CHOOSE x \in S : \A y \in S : HashSlot(x, seed) <= HashSlot(y, seed)
         IN <<w>> \o ListOfSet(S \ {w}, seed)

\* the elements of a sequence
Range(seq) == {seq[i] : i \in 1..Len(seq)}

\* STOP_CHARS_PATTERN.sub(" ", q)
SubStopChars(s) == MapChars(s, 1, Len(s), "stop")

\* QueryProcessor.normalize; re.sub(r"\s+", " ", q).strip() leaves the words
\* of q joined by single blanks
normalize(query) == Strip(Join(" ", Split(SubStopChars(Strip(query)))))

RECURSIVE DisambiguateWords(_)
DisambiguateWords(words) ==
    IF Len(words) = 0 THEN <<>>
    ELSE (IF Upper(words[1]) \in DOMAIN _ACRONYMS
          THEN <<_ACRONYMS[Upper(words[1])], words[1]>>
          ELSE <<words[1]>>) \o DisambiguateWords(Tail(words))

\* QueryProcessor.disambiguate
disambiguate(query) ==
    LET words == Split(query)
        dis_q == Join(" ", DisambiguateWords(words))
    IN IF Len(words) = 1 /\ Lower(words[1]) \in DOMAIN _POLYSEMY_HINTS
       THEN dis_q \o " (" \o Join(" | ", Take(_POLYSEMY_HINTS[Lower(words[1])], 2)) \o ")"
       ELSE dis_q

\* QueryProcessor._wordnet_synonyms
_wordnet_synonyms(term, wordnet, seed) ==
    IF ~wordnet THEN <<>>
    ELSE Take(ListOfSet({n \in WordnetLemmas(term) : Lower(n) # Lower(term) /\ Len(n) <= 20},
                        seed), max_expansions)

\* QueryProcessor.expand
expand(query, wordnet, seed) ==
    LET base == normalize(query)
        tokens == SelectSeq(Split(Lower(base)), LAMBDA t : Len(t) > 2)
        toks == Range(tokens)
        domain_hits == {t \in toks : t \in DOMAIN DOMAIN_SYNONYMS}
        expansions ==
            UNION {Range(Take(DOMAIN_SYNONYMS[t], max_expansions)) : t \in domain_hits}
            \cup UNION {Range(_wordnet_synonyms(t, wordnet, seed)) : t \in toks}
    IN [normalized |-> base,
        tokens |-> tokens,
        domain_terms |-> ListOfSet(domain_hits, seed),
        expansions |-> ListOfSet({e \in expansions : e \notin toks}, seed)]

\* the variant built for one domain term
DomainClause(dt) == dt \o " OR " \o Join(" OR ", Take(DOMAIN_SYNONYMS[dt], 2))

MapDomainClauses(dts) == [i \in 1..Len(dts) |-> DomainClause(dts[i])]

RECURSIVE DedupeLimit(_, _, _, _)
\* the "Deduplicate & limit" loop of multi_queries over the variants left
DedupeLimit(variants, seen, final, max_variants) ==
    IF Len(variants) = 0 THEN final
    ELSE LET vv == Strip(variants[1])
             add == vv # "" /\ Lower(vv) \notin seen
             final2 == IF add THEN Append(final, vv) ELSE final
             seen2 == IF add THEN seen \cup {Lower(vv)} ELSE seen
         IN IF Len(final2) >= max_variants THEN final2
            ELSE DedupeLimit(Tail(variants), seen2, final2, max_variants)

\* candidate variants without the structured "dt OR synonym" variant
VariantsUnstructured(info) ==
    <<info.normalized>>
    \o (IF Len(info.expansions) > 0
        THEN <<info.normalized \o " " \o Join(" ", Take(info.expansions, 2))>> ELSE <<>>)

\* the candidate variants multi_queries assembles before deduplication
Variants(info) ==
    <<info.normalized>>
    \o (IF Len(info.expansions) > 0
        THEN <<info.normalized \o " " \o Join(" ", Take(info.expansions, 2))>> ELSE <<>>)
    \o (IF Len(info.domain_terms) > 0
        THEN <<Join("; ", MapDomainClauses(info.domain_terms))>> ELSE <<>>)

\* QueryProcessor.multi_queries
multi_queries(query, max_variants, wordnet, seed) ==
    DedupeLimit(Variants(expand(disambiguate(query), wordnet, seed)), {}, <<>>,
                max_variants)

Queries == {"What helps with fever?", "fever tulsi", "heart digestion", "yoga", ""}

\* the top_k arguments: None (the configured default) or a number
TopKs == {<<>>, <<1>>, <<3>>, <<10>>}

\* the number of hash seeds a process can start with
NumSeeds == 2

\* the largest number of the hybrid_retriever.retrieve call that is made to raise
MaxFailAt == 2

\* every chunk text of the deployment
AllTexts == UNION {{c[i] : i \in 1..Len(c)} : c \in Corpora}

\* chunk['text'].lower(), computed once per chunk text
LowerTable == [t \in AllTexts |-> Lower(t)]

LowerText(text) == IF text \in AllTexts THEN LowerTable[text] ELSE Lower(text)

\* the words of a chunk text, lower-cased, computed once per chunk text
TextWordsTable == [t \in AllTexts |-> Range(Split(Lower(t)))]

TextWords(text) == IF text \in AllTexts THEN TextWordsTable[text] ELSE Range(Split(Lower(text)))

(***************************************************************************)
(* Scores, sorting                                                         *)
(***************************************************************************)
\* a float score, kept exact as <<numerator, denominator>> with denominator > 0
ScoreLt(a, b) == a[1] * b[2] < b[1] * a[2]

ScoreEq(a, b) == a[1] * b[2] = b[1] * a[2]

ScoreLe(a, b) == ScoreLt(a, b) \/ ScoreEq(a, b)

\* the score FAISS reports for a slot it could not fill (lowest float32,
\* below every similarity)
MissingSlotScore == <<-1000, 1>>

\* x.get(key, 0)
GetScore(r, key) == IF key \in DOMAIN r THEN r[key] ELSE <<0, 1>>

RECURSIVE InsertDesc(_, _, _)
\* x placed behind every element whose key is at least its own
InsertDesc(sorted, x, key) ==
    IF Len(sorted) = 0 THEN <<x>>
    ELSE IF ScoreLt(GetScore(sorted[1], key), GetScore(x, key)) THEN <<x>> \o sorted
    ELSE <<sorted[1]>> \o InsertDesc(Tail(sorted), x, key)

RECURSIVE SortDescFrom(_, _, _, _)
SortDescFrom(seq, i, acc, key) ==
    IF i > Len(seq) THEN acc ELSE SortDescFrom(seq, i + 1, InsertDesc(acc, seq[i], key), key)

\* sorted(seq, key=..., reverse=True) and list.sort(key=..., reverse=True):
\* descending and stable (equal keys keep their original order)
SortDesc(seq, key) == SortDescFrom(seq, 1, <<>>, key)

\* the number of variants the corrective pass asks for
CorrectiveVariants == 4

\* the expanded queries of the corrective pass
ExpandedQueries(query, wordnet, seed) ==
    multi_queries(query \o " detailed clinical context", CorrectiveVariants, wordnet, seed)

\* ExpandedQueries, computed once per query, WordNet setting and seed
ExpandedTable ==
    [q \in Queries, w \in BOOLEAN, sd \in 1..NumSeeds |-> ExpandedQueries(q, w, sd)]

Expanded(query, wordnet, seed) ==
    IF query \in Queries /\ seed \in 1..NumSeeds THEN ExpandedTable[query, wordnet, seed]
    ELSE ExpandedQueries(query, wordnet, seed)

(***************************************************************************)
(* Embedding model, FAISS search, HybridRetriever                          *)
(***************************************************************************)
\* the similarity the embedding model and the inner-product index give a
\* query and an indexed text: the Dice coefficient of their sets of words
EmbedSim(query, text) ==
    LET qs == Range(Split(Lower(SubStopChars(query))))
        ts == TextWords(text)
    IN IF qs = {} \/ ts = {} THEN <<0, 1>>
       ELSE <<2 * Cardinality(qs \cap ts), Cardinality(qs) + Cardinality(ts)>>

\* every query string a hybrid_retriever.retrieve call of this deployment can see
AllQueryStrings ==
    Queries \cup UNION {Range(ExpandedQueries(q, w, sd)) :
                           q \in Queries, w \in BOOLEAN, sd \in 1..NumSeeds}

\* EmbedSim, computed once per pair
EmbedSimTable == [q \in AllQueryStrings, t \in AllTexts |-> EmbedSim(q, t)]

Similarity(query, text) ==
    IF query \in AllQueryStrings /\ text \in AllTexts THEN EmbedSimTable[query, text]
    ELSE EmbedSim(query, text)

\* the 0-based rows of an index over the texts, best match first (ties: lower
\* row first)
RankRows(texts, query) ==
    LET rows == [i \in 1..Len(texts) |-> [idx |-> i - 1, score |-> Similarity(query, texts[i])]]
    IN SortDesc(rows, "score")

\* RankRows, computed once per corpus and query
RankRowsTable == [c \in Corpora, q \in AllQueryStrings |-> RankRows(c, q)]

SearchOrder(ix, query) ==
    IF ix.texts \in Corpora /\ query \in AllQueryStrings THEN RankRowsTable[ix.texts, query]
    ELSE RankRows(ix.texts, query)

\* faiss_index.search(query_embedding, top_k): exactly top_k slots, the
\* missing ones reported with index -1
FaissSearch(ix, query, top_k) ==
    LET order == SearchOrder(ix, query)
    IN [i \in 1..top_k |->
          IF i <= Len(order) THEN order[i] ELSE [idx |-> -1, score |-> MissingSlotScore]]

\* config.SIMILARITY_THRESHOLD as a fraction
SIMILARITY_THRESHOLD == <<3, 10>>

\* HybridRetriever(faiss_index=..., document_chunks=...)
HybridRetriever(ix, chunks) == [kind |-> "hybrid", faiss_index |-> ix, document_chunks |-> chunks]

\* the kept candidates as RetrievedChunks of the retriever's chunks, ranked from 1
Ranked(kept, chunks) ==
    [i \in 1..Len(kept) |->
        [text |-> chunks[kept[i].idx + 1],
         score |-> kept[i].score,
         similarity_score |-> kept[i].score,
         rank |-> i]]

\* HybridRetriever.retrieve: candidates from the index, mapped to the
\* retriever's chunks, those under the similarity floor dropped, sorted by
\* score (stable), truncated to top_k, ranked from 1
HybridRetrieve(hr, query, top_k) ==
    Ranked(Take(SelectSeq(SearchOrder(hr.faiss_index, query),
                          LAMBDA c : /\ c.idx < Len(hr.document_chunks)
                                     /\ ScoreLe(SIMILARITY_THRESHOLD, c.score)),
                top_k),
           hr.document_chunks)

(***************************************************************************)
(* RAGSystem.retrieve                                                      *)
(***************************************************************************)
\* config.TOP_K_RETRIEVAL
TOP_K_RETRIEVAL == 7

\* the characters of a text that make its merge key
MergeKeyChars == 200

\* a merge key made of the whole text
MergeKeyWholeText(r) == r.text

\* hash(r['text'][:200]): taken as collision-free, so the key is the prefix
MergeKey(r) == Prefix(r.text, MergeKeyChars)

RECURSIVE MergeFrom(_, _, _)
\* the merged dict's values in insertion order after results[i..] were folded in
MergeFrom(results, i, merged) ==
    IF i > Len(results) THEN merged
    ELSE LET r == results[i]
             at == {j \in 1..Len(merged) : MergeKey(merged[j]) = MergeKey(r)}
         IN IF at = {} THEN MergeFrom(results, i + 1, Append(merged, r))
            ELSE LET j == CHOOSE x \in at : TRUE
                 IN IF ScoreLt(merged[j].score, r.score)
                    THEN MergeFrom(results, i + 1, [merged EXCEPT ![j] = r])
                    ELSE MergeFrom(results, i + 1, merged)

\* "merge & dedupe by text hash"
Merge(results) == MergeFrom(results, 1, <<>>)

\* a weak-result condition that only tests for an empty list
IsWeakOnlyEmpty(results, top_k) == Len(results) = 0

\* a weak-result test that also counts a list of exactly the threshold as weak
IsWeakInclusive(results, top_k) == Len(results) = 0 \/ Len(results) <= Max(3, top_k \div 2)

\* the weak-result condition of the corrective pass
IsWeak(results, top_k) == Len(results) = 0 \/ Len(results) < Max(3, top_k \div 2)

RECURSIVE Flatten(_)
\* alt.extend(...) over a sequence of result lists
Flatten(lists) == IF Len(lists) = 0 THEN <<>> ELSE lists[1] \o Flatten(Tail(lists))

\* the sorted relevant_chunks of _fallback_retrieve
KeywordRanked(chunks, query) ==
    LET words == Split(Lower(query))
        Hits(text) == Cardinality({i \in 1..Len(words) : IsSubstring(words[i], LowerText(text))})
        matching == SelectSeq(chunks, LAMBDA text : Hits(text) > 0)
        relevant_chunks == [i \in 1..Len(matching) |->
                               [text |-> matching[i],
                                similarity_score |-> <<Hits(matching[i]), Len(words)>>]]
    IN SortDesc(relevant_chunks, "similarity_score")

\* KeywordRanked, computed once per corpus and query
KeywordTable == [c \in Corpora, q \in Queries |-> KeywordRanked(c, q)]

\* RAGSystem._fallback_retrieve
_fallback_retrieve(chunks, query, top_k) ==
    Take(IF chunks \in Corpora /\ query \in Queries THEN KeywordTable[chunks, query]
         ELSE KeywordRanked(chunks, query), top_k)

\* the slots of a search whose index passes `idx < len(self.document_chunks)`,
\* each with its position in the search result
TakenSlots(slots, chunks) ==
    SelectSeq([i \in 1..Len(slots) |-> [slot |-> slots[i], i |-> i]],
              LAMBDA e : e.slot.idx < Len(chunks))

\* self.document_chunks[idx] for a Python index (negative: from the end)
ChunkAt(chunks, idx) == IF idx >= 0 THEN chunks[idx + 1] ELSE chunks[Len(chunks) + 1 + idx]

\* relevant_chunks of the vector-only loop
VectorChunks(taken, chunks) ==
    [n \in 1..Len(taken) |->
        [text |-> ChunkAt(chunks, taken[n].slot.idx),
         similarity_score |-> taken[n].slot.score,
         rank |-> taken[n].i]]

\* what the try block of the vector-only retrieval raises: the exception of
\* encode, of a search with a query vector that does not fit the index, or of
\* the lookup of a slot in an empty chunk list ("none": it raises nothing)
VectorError(taken, ix, chunks, model, encodeOk) ==
    IF ~encodeOk THEN "encode"
    ELSE IF Dimension(ix.model) # Dimension(model) THEN "search"
    ELSE IF Len(taken) > 0 /\ Len(chunks) = 0 THEN "lookup"
    ELSE "none"

\* a vector-only retrieval whose exceptions reach the caller of retrieve
VectorTryUncaught(taken, ix, chunks, model, query, top_k, encodeOk) ==
    IF VectorError(taken, ix, chunks, model, encodeOk) # "none"
    THEN [path |-> "raise", result |-> <<>>,
          caught |-> VectorError(taken, ix, chunks, model, encodeOk)]
    ELSE [path |-> "vector", caught |-> "none",
          result |-> SortDesc(VectorChunks(taken, chunks), "similarity_score")]

\* the try block of the vector-only retrieval and its except clause, which
\* falls back to keyword matching; `caught` is the exception it caught
VectorTry(taken, ix, chunks, model, query, top_k, encodeOk) ==
    IF VectorError(taken, ix, chunks, model, encodeOk) # "none"
    THEN [path |-> "keyword", result |-> _fallback_retrieve(chunks, query, top_k),
          caught |-> VectorError(taken, ix, chunks, model, encodeOk)]
    ELSE [path |-> "vector", caught |-> "none",
          result |-> SortDesc(VectorChunks(taken, chunks), "similarity_score")]

\* the "Legacy vector-only retrieval" part of RAGSystem.retrieve; encodeOk
\* says whether sentence_transformer.encode returns
VectorRetrieve(ix, st, chunks, model, query, top_k, encodeOk) ==
    IF ix = None \/ ~st
    THEN [path |-> "keyword", result |-> _fallback_retrieve(chunks, query, top_k),
          caught |-> "none"]
    ELSE VectorTry(TakenSlots(FaissSearch(ix, query, top_k), chunks), ix, chunks, model, query,
                   top_k, encodeOk)

\* what a retrieve call records besides its result: the first-pass list, the
\* expanded queries, the second-pass lists, the merged values and the number
\* of hybrid_retriever.retrieve calls
RetrieveTrace(query, top_k) ==
    [first |-> <<>>, expanded |-> <<>>, alt |-> <<>>, merged |-> <<>>, calls |-> 0,
     corrective |-> FALSE, top_k |-> top_k, query |-> query]

\* the merged values sorted but not truncated
MergedResultUntruncated(t, merged, top_k) ==
    [t EXCEPT !.merged = merged]
    @@ [path |-> "corrective", result |-> SortDesc(merged, "score")]

\* results = sorted(merged.values(), key=score, reverse=True)[:top_k]
MergedResult(t, merged, top_k) ==
    [t EXCEPT !.merged = merged]
    @@ [path |-> "corrective", result |-> Take(SortDesc(merged, "score"), top_k)]

\* a corrective pass that is run once more when its merged result is weak
CorrectivePassRetried(t, legacy, results, expanded_queries, lists, failAt, top_k) ==
    IF failAt > 1 /\ failAt <= 1 + Len(expanded_queries)
    THEN [t EXCEPT !.first = results, !.corrective = TRUE, !.expanded = expanded_queries,
                   !.calls = failAt, !.alt = Take(lists, failAt - 2)]
         @@ legacy
    ELSE [t EXCEPT !.first = results, !.corrective = TRUE, !.expanded = expanded_queries,
                   !.calls = IF IsWeak(Take(Merge(results \o Flatten(lists)), top_k), top_k)
                             THEN 1 + 2 * Len(expanded_queries)
                             ELSE 1 + Len(expanded_queries),
                   !.alt = lists,
                   !.merged = Merge(results \o Flatten(lists))]
         @@ [path |-> "corrective",
             result |-> Take(SortDesc(Merge(results \o Flatten(lists)), "score"), top_k)]

\* the corrective pass once the second-pass lists are known: call number
\* failAt raises (the except clause falls through to the vector-only part),
\* or all calls return and the lists are merged
CorrectivePass(t, legacy, results, expanded_queries, lists, failAt, top_k) ==
    IF failAt > 1 /\ failAt <= 1 + Len(expanded_queries)
    THEN [t EXCEPT !.first = results, !.corrective = TRUE, !.expanded = expanded_queries,
                   !.calls = failAt, !.alt = Take(lists, failAt - 2)]
         @@ legacy
    ELSE MergedResult([t EXCEPT !.first = results, !.corrective = TRUE,
                                !.expanded = expanded_queries,
                                !.calls = 1 + Len(expanded_queries), !.alt = lists],
                      Merge(results \o Flatten(lists)), top_k)

\* the second pass: one hybrid_retriever.retrieve call per expanded query
SecondPass(hr, t, legacy, results, expanded_queries, failAt, top_k) ==
    CorrectivePass(t, legacy, results, expanded_queries,
                   [i \in 1..Len(expanded_queries) |->
                       HybridRetrieve(hr, expanded_queries[i], top_k)],
                   failAt, top_k)

\* retrieve after the first pass returned results
AfterFirstPass(hr, t, legacy, results, wordnet, seed, failAt) ==
    IF ~IsWeak(results, t.top_k)
    THEN [t EXCEPT !.first = results, !.calls = 1] @@ [path |-> "hybrid", result |-> results]
    ELSE SecondPass(hr, t, legacy, results, Expanded(t.query, wordnet, seed), failAt, t.top_k)

\* retrieve with top_k resolved; legacy is what the vector-only part returns
RetrieveWith(hr, t, legacy, wordnet, seed, failAt) ==
    IF hr = None THEN t @@ legacy
    ELSE IF failAt = 1 THEN [t EXCEPT !.calls = 1] @@ legacy
    ELSE AfterFirstPass(hr, t, legacy, HybridRetrieve(hr, t.query, t.top_k), wordnet, seed,
                        failAt)

\* top_k as retrieve resolves it: <<>> stands for None, <<k>> for k
ResolveTopK(top_k_arg) == IF top_k_arg = <<>> THEN TOP_K_RETRIEVAL ELSE top_k_arg[1]

\* RAGSystem.retrieve.  failAt numbers the hybrid_retriever.retrieve call that
\* raises (0: none).  The value is the returned list (result), the path that
\* produced it, and the RetrieveTrace of the call.
retrieve(hr, ix, st, chunks, model, wordnet, seed, query, top_k_arg, failAt, encodeOk) ==
    RetrieveWith(hr, RetrieveTrace(query, ResolveTopK(top_k_arg)),
                 VectorRetrieve(ix, st, chunks, model, query, ResolveTopK(top_k_arg), encodeOk),
                 wordnet, seed, failAt)

(***************************************************************************)
(* Operations                                                              *)
(***************************************************************************)
NoCall == [op |-> "none"]

\* RAGSystem.__init__ with nothing persisted yet
Fresh ==
    /\ knowledge_chunks = <<>>
    /\ document_chunks = <<>>
    /\ sentence_transformer = FALSE
    /\ faiss_index = None
    /\ hybrid_retriever = None
    /\ index_file = Absent
    /\ emb_file = Absent
    /\ meta_file = Absent
    /\ last = NoCall

\* the index-lifecycle specification: any dependencies and configuration; the
\* hash seed and WordNet, which only shape expanded query strings, are fixed
Init ==
    /\ DEPENDENCIES_AVAILABLE \in BOOLEAN
    /\ config \in [EMBEDDING_MODEL : Models, USE_HYBRID_RETRIEVAL : BOOLEAN]
    /\ hashSeed = 1
    /\ enable_wordnet = FALSE
    /\ Fresh

\* the retrieval specification: any hash seed, WordNet setting and retrieval
\* mode, with the dependencies installed and the configured embedding model
InitRetrieve ==
    /\ DEPENDENCIES_AVAILABLE = TRUE
    /\ config \in [EMBEDDING_MODEL : {"sentence-transformers/all-MiniLM-L6-v2"},
                    USE_HYBRID_RETRIEVAL : BOOLEAN]
    /\ hashSeed \in 1..NumSeeds
    /\ enable_wordnet \in BOOLEAN
    /\ Fresh

\* RAGSystem.load_knowledge_base: the knowledge base yields corpus c, or raises
load_knowledge_base(c, ok) ==
    /\ IF ok
       THEN /\ knowledge_chunks' = c
            /\ document_chunks' = c
       ELSE UNCHANGED <<knowledge_chunks, document_chunks>>
    /\ last' = [op |-> "load_knowledge_base", ret |-> ok]
    /\ UNCHANGED <<DEPENDENCIES_AVAILABLE, config, hashSeed, enable_wordnet,
                   sentence_transformer, faiss_index, hybrid_retriever, index_file,
                   emb_file, meta_file>>

\* RAGSystem.initialize_sentence_transformer: the model loads, or raises
initialize_sentence_transformer(ok) ==
    /\ sentence_transformer' = IF DEPENDENCIES_AVAILABLE /\ ok THEN TRUE ELSE sentence_transformer
    /\ last' = [op |-> "initialize_sentence_transformer", ret |-> DEPENDENCIES_AVAILABLE /\ ok]
    /\ UNCHANGED <<DEPENDENCIES_AVAILABLE, config, hashSeed, enable_wordnet, knowledge_chunks,
                   document_chunks, faiss_index, hybrid_retriever, index_file, emb_file,
                   meta_file>>

\* the places where the "Build new" part of initialize_faiss_index can raise:
\* nowhere, in _encode_in_batches, or between IndexFlatIP(...) and add(...)
BuildFailures == {"none", "encode", "add"}

\* how the three writes of one _save_index call end: all complete, or the
\* first, second or third raises, leaving its file untouched or truncated
SaveOutcomes ==
    {<<"ok", "ok", "ok">>}
    \cup {<<how, "ok", "ok">> : how \in WriteOutcomes}
    \cup {<<"ok", how, "ok">> : how \in WriteOutcomes}
    \cup {<<"ok", "ok", how>> : how \in WriteOutcomes}

\* the trace of a call of _load_existing_index: the files and fingerprint it saw
LoadTrace(ld, before) ==
    [ran |-> TRUE, outcome |-> ld.outcome, after |-> ld.faiss_index, before |-> before,
     index_file |-> index_file, emb_file |-> emb_file, meta_file |-> meta_file,
     current_fp |-> ComputeCorpusFingerprint(knowledge_chunks, config.EMBEDDING_MODEL)]

\* RAGSystem.initialize_faiss_index
initialize_faiss_index(force_rebuild, buildFail, w) ==
    LET model == config.EMBEDDING_MODEL
        call == [op |-> "initialize_faiss_index", force_rebuild |-> force_rebuild]
    IN
    IF ~DEPENDENCIES_AVAILABLE \/ ~sentence_transformer \/ Len(knowledge_chunks) = 0
    THEN /\ last' = call @@ [ret |-> "False", load |-> [ran |-> FALSE], built |-> FALSE]
         /\ UNCHANGED <<DEPENDENCIES_AVAILABLE, config, hashSeed, enable_wordnet,
                        knowledge_chunks, document_chunks, sentence_transformer, faiss_index,
                        hybrid_retriever, index_file, emb_file, meta_file>>
    ELSE
    LET ld == _load_existing_index(faiss_index, knowledge_chunks, model, index_file, emb_file,
                                   meta_file)
        tried == ~force_rebuild
        loadTrace == IF tried THEN LoadTrace(ld, faiss_index) ELSE [ran |-> FALSE]
        ix0 == IF tried THEN ld.faiss_index ELSE faiss_index
        new == Index(knowledge_chunks, model)
        files == _save_index(new, Len(knowledge_chunks),
                             ComputeCorpusFingerprint(knowledge_chunks, model), model,
                             index_file, emb_file, meta_file, w[1], w[2], w[3])
    IN
    IF tried /\ ld.outcome = "raise"
    THEN /\ faiss_index' = ix0
         /\ last' = call @@ [ret |-> "raise", load |-> loadTrace, built |-> FALSE]
         /\ UNCHANGED <<DEPENDENCIES_AVAILABLE, config, hashSeed, enable_wordnet,
                        knowledge_chunks, document_chunks, sentence_transformer,
                        hybrid_retriever, index_file, emb_file, meta_file>>
    ELSE IF tried /\ ld.outcome = "hit"
    THEN /\ faiss_index' = ix0
         /\ hybrid_retriever' = IF config.USE_HYBRID_RETRIEVAL
                                THEN HybridRetriever(ix0, document_chunks)
                                ELSE hybrid_retriever
         /\ last' = call @@ [ret |-> "True", load |-> loadTrace, built |-> FALSE]
         /\ UNCHANGED <<DEPENDENCIES_AVAILABLE, config, hashSeed, enable_wordnet,
                        knowledge_chunks, document_chunks, sentence_transformer, index_file,
                        emb_file, meta_file>>
    ELSE IF buildFail # "none"
    THEN /\ faiss_index' = IF buildFail = "encode" THEN ix0 ELSE Index(<<>>, model)
         /\ last' = call @@ [ret |-> "False", load |-> loadTrace, built |-> FALSE,
                             raised |-> buildFail]
         /\ UNCHANGED <<DEPENDENCIES_AVAILABLE, config, hashSeed, enable_wordnet,
                        knowledge_chunks, document_chunks, sentence_transformer,
                        hybrid_retriever, index_file, emb_file, meta_file>>
    ELSE /\ faiss_index' = new
         /\ index_file' = files.index_file
         /\ emb_file' = files.emb_file
         /\ meta_file' = files.meta_file
         /\ hybrid_retriever' = IF config.USE_HYBRID_RETRIEVAL
                                THEN HybridRetriever(new, document_chunks)
                                ELSE hybrid_retriever
         /\ last' = call @@ [ret |-> "True", load |-> loadTrace, built |-> TRUE,
                             writes |-> w]
         /\ UNCHANGED <<DEPENDENCIES_AVAILABLE, config, hashSeed, enable_wordnet,
                        knowledge_chunks, document_chunks, sentence_transformer>>

\* the index a retrieve call searches on the path it ends on
Searched(path) ==
    IF path \in {"hybrid", "corrective"} THEN hybrid_retriever.faiss_index
    ELSE IF path = "vector" THEN faiss_index
    ELSE None

\* the state after a retrieve call that did r
Returned(r) ==
    /\ last' = [op |-> "retrieve", searched |-> Searched(r.path)] @@ r
    /\ UNCHANGED <<DEPENDENCIES_AVAILABLE, config, hashSeed, enable_wordnet,
                   knowledge_chunks, document_chunks, sentence_transformer, faiss_index,
                   hybrid_retriever, index_file, emb_file, meta_file>>

\* a call of RAGSystem.retrieve
Retrieve(query, top_k, failAt, encodeOk) ==
    Returned(retrieve(hybrid_retriever, faiss_index, sentence_transformer, document_chunks,
                      config.EMBEDDING_MODEL, enable_wordnet, hashSeed, query, top_k, failAt,
                      encodeOk))

\* the process ends and a new one starts: RAGSystem.__init__ with the
\* configuration and dependencies of the new process; the files stay
Restart ==
    /\ DEPENDENCIES_AVAILABLE' \in BOOLEAN
    /\ config' \in [EMBEDDING_MODEL : Models, USE_HYBRID_RETRIEVAL : BOOLEAN]
    /\ UNCHANGED <<hashSeed, enable_wordnet>>
    /\ knowledge_chunks' = <<>>
    /\ document_chunks' = <<>>
    /\ sentence_transformer' = FALSE
    /\ faiss_index' = None
    /\ hybrid_retriever' = None
    /\ last' = NoCall
    /\ UNCHANGED <<index_file, emb_file, meta_file>>

\* the index lifecycle with every fault of loading, building and saving, and
\* restarts; retrieval with the default arguments
Next ==
    \/ \E c \in IndexCorpora, ok \in BOOLEAN : load_knowledge_base(c, ok)
    \/ \E ok \in BOOLEAN : initialize_sentence_transformer(ok)
    \/ \E force_rebuild \in BOOLEAN, buildFail \in BuildFailures, w \in SaveOutcomes :
          initialize_faiss_index(force_rebuild, buildFail, w)
    \/ Retrieve("What helps with fever?", <<>>, 0, TRUE)
    \/ Restart

Spec == Init /\ [][Next]_vars

\* any sequence of load_knowledge_base, initialize_sentence_transformer,
\* initialize_faiss_index and retrieve calls in one process, with every query,
\* top_k and retriever fault
NextRetrieve ==
    \/ \E c \in RetrievalCorpora : load_knowledge_base(c, TRUE)
    \/ initialize_sentence_transformer(TRUE)
    \/ \E force_rebuild \in BOOLEAN :
          initialize_faiss_index(force_rebuild, "none", <<"ok", "ok", "ok">>)
    \/ \E query \in Queries, top_k \in TopKs, failAt \in 0..MaxFailAt, encodeOk \in BOOLEAN :
          Retrieve(query, top_k, failAt, encodeOk)

SpecRetrieve == InitRetrieve /\ [][NextRetrieve]_vars

(***************************************************************************)
(* The fingerprint as a function of corpus and model                       *)
(***************************************************************************)
\* a deployment with corpus and model loaded, and the corpus and model of
\* another deployment to compare it with
InitFingerprint ==
    /\ DEPENDENCIES_AVAILABLE = TRUE
    /\ config \in [EMBEDDING_MODEL : Models, USE_HYBRID_RETRIEVAL : {TRUE}]
    /\ hashSeed = 1
    /\ enable_wordnet = FALSE
    /\ knowledge_chunks \in FingerprintCorpora
    /\ document_chunks = knowledge_chunks
    /\ sentence_transformer = FALSE
    /\ faiss_index = None
    /\ hybrid_retriever = None
    /\ index_file = Absent
    /\ emb_file = Absent
    /\ meta_file = Absent
    /\ \E c \in FingerprintCorpora, m \in Models :
          last = [op |-> "other", chunks |-> c, model |-> m]

\* _compute_corpus_fingerprint called twice here and once in the other deployment
Fingerprint ==
    /\ last.op = "other"
    /\ last' = [op |-> "fingerprint", chunks |-> last.chunks, model |-> last.model,
                fp |-> ComputeCorpusFingerprint(knowledge_chunks, config.EMBEDDING_MODEL),
                again |-> ComputeCorpusFingerprint(knowledge_chunks, config.EMBEDDING_MODEL),
                other_fp |-> ComputeCorpusFingerprint(last.chunks, last.model)]
    /\ UNCHANGED <<DEPENDENCIES_AVAILABLE, config, hashSeed, enable_wordnet,
                   knowledge_chunks, document_chunks, sentence_transformer, faiss_index,
                   hybrid_retriever, index_file, emb_file, meta_file>>

NextFingerprint == Fingerprint

SpecFingerprint == InitFingerprint /\ [][NextFingerprint]_vars

(***************************************************************************)
(* Two runs of retrieve on the same inputs                                 *)
(***************************************************************************)
\* the retrieve call made here and, with the same arguments, state and
\* retriever behaviour, in a process whose hash seed is otherSeed
RetrieveBoth(query, top_k, failAt, encodeOk, otherSeed) ==
    Returned(retrieve(hybrid_retriever, faiss_index, sentence_transformer, document_chunks,
                      config.EMBEDDING_MODEL, enable_wordnet, hashSeed, query, top_k, failAt,
                      encodeOk)
             @@ [other |-> retrieve(hybrid_retriever, faiss_index, sentence_transformer,
                                    document_chunks, config.EMBEDDING_MODEL, enable_wordnet,
                                    otherSeed, query, top_k, failAt, encodeOk)])

NextDeterminism ==
    \/ \E c \in RetrievalCorpora : load_knowledge_base(c, TRUE)
    \/ initialize_sentence_transformer(TRUE)
    \/ \E force_rebuild \in BOOLEAN :
          initialize_faiss_index(force_rebuild, "none", <<"ok", "ok", "ok">>)
    \/ \E query \in Queries, top_k \in TopKs, failAt \in 0..MaxFailAt, encodeOk \in BOOLEAN,
          otherSeed \in 1..NumSeeds :
          RetrieveBoth(query, top_k, failAt, encodeOk, otherSeed)

SpecDeterminism == InitRetrieve /\ [][NextDeterminism]_vars

(***************************************************************************)
(* Chunking (src/src/chunking.py)                                          *)
(***************************************************************************)
\* what a chunking call does: it returns its chunks, or its loop never ends
Returns(chunks) == [outcome |-> "return", chunks |-> chunks]

Diverges == [outcome |-> "diverge", chunks |-> <<>>]

\* the first position after i that holds no whitespace (0: there is none)
NextInk(s, i) ==
    LET inked == {j \in (i + 1)..Len(s) : ~IsSpace(CharAt(s, j))}
    IN IF inked = {} THEN 0 ELSE CHOOSE j \in inked : \A k \in inked : j <= k

\* the matches of (?<=[.!?])\s+(?=[A-Z0-9]), by the position each starts at:
\* a whitespace run after ., ! or ? that an upper-case letter or a digit follows
SentenceBreaks(s) ==
    {i \in 2..Len(s) :
        /\ IsSpace(CharAt(s, i))
        /\ CharAt(s, i - 1) \in {".", "!", "?"}
        /\ NextInk(s, i) # 0
        /\ (IsUpper(CharAt(s, NextInk(s, i))) \/ CharAt(s, NextInk(s, i)) \in Digits)}

\* re.split at the given breaks of the stripped text
SplitAtBreaks(s, breaks) ==
    IF s = "" THEN <<>>
    ELSE SplitFrom(s, {1} \cup {NextInk(s, i) : i \in breaks},
                   {i - 1 : i \in breaks} \cup {Len(s)})

\* _split_sentences without spaCy (the regex fallback)
_split_sentences(text) == SplitAtBreaks(Strip(text), SentenceBreaks(Strip(text)))

summary_max_chars == 180

\* text.rsplit(" ", 1)[0]
BeforeLastSpace(s) ==
    LET spaces == {i \in 1..Len(s) : CharAt(s, i) = " "}
    IN IF spaces = {} THEN s
       ELSE SubSeq(s, 1, (CHOOSE i \in spaces : \A j \in spaces : i >= j) - 1)

\* the summary of a text whose sentences are given (the ellipsis character is
\* written "..." here)
SummaryOf(text, sentences) ==
    IF Len(sentences) > 0 /\ Len(sentences[1]) <= summary_max_chars THEN sentences[1]
    ELSE IF Len(text) > summary_max_chars
         THEN BeforeLastSpace(Prefix(text, summary_max_chars)) \o "..."
         ELSE text

\* _summarize
_summarize(text) == SummaryOf(text, _split_sentences(text))

\* {"text": ..., "summary": _summarize(...)}
Chunk(text) == [text |-> text, summary |-> _summarize(text)]

\* chunks.append(...) if the piece is not empty
AppendPiece(chunks, piece) == IF piece = "" THEN chunks ELSE Append(chunks, Chunk(piece))

\* a next window that starts where this one ends
NextStartNoOverlap(end, overlap_tokens) == end

\* start = end - overlap_tokens; if start < 0: start = 0
NextStart(end, overlap_tokens) == Max(end - overlap_tokens, 0)

NonEmpty(s) == s # ""

\* [{"text": p, "summary": _summarize(p)} for p in paras]
Chunks(paras) == [i \in 1..Len(paras) |-> Chunk(paras[i])]

\* what the while loop of sliding_window_chunk does: it ends after the windows
\* that start at `starts`, or it never ends
Ends(starts) == [outcome |-> "return", starts |-> starts]

Loops == [outcome |-> "diverge", starts |-> <<>>]

RECURSIVE WindowStarts(_, _, _, _, _)
\* the while loop of sliding_window_chunk over n tokens from `start` (0-based)
\* on, `starts` being the starts of the windows appended so far: the loop ends
\* with the window that reaches the last token, and a loop that comes back to
\* a start it has been at never ends
WindowStarts(n, window_tokens, overlap_tokens, start, starts) ==
    IF start >= n THEN Ends(starts)
    ELSE IF \E k \in 1..Len(starts) : starts[k] = start THEN Loops
    ELSE IF Min(start + window_tokens, n) = n THEN Ends(Append(starts, start))
    ELSE WindowStarts(n, window_tokens, overlap_tokens,
                      NextStart(Min(start + window_tokens, n), overlap_tokens),
                      Append(starts, start))

\* piece = " ".join(tokens[start:end]).strip() with end = min(start + window_tokens, len(tokens))
Piece(tokens, start, window_tokens) ==
    Strip(Join(" ", SubSeq(tokens, start + 1, Min(start + window_tokens, Len(tokens)))))

\* the chunks of the windows the loop went through: the pieces that are not empty
SlidingChunks(tokens, window_tokens, loop) ==
    IF loop.outcome # "return" THEN Diverges
    ELSE Returns(Chunks(SelectSeq([k \in 1..Len(loop.starts) |->
                                      Piece(tokens, loop.starts[k], window_tokens)],
                                  NonEmpty)))

\* sliding_window_chunk
sliding_window_chunk(text, window_tokens, overlap_tokens) ==
    SlidingChunks(Split(text), window_tokens,
                  WindowStarts(Len(Split(text)), window_tokens, overlap_tokens, 0, <<>>))

\* the maximal runs of positions of s outside `breaks`, leftmost first
RunsOutside(s, breaks) ==
    SplitFrom(s,
              {i \in (1..Len(s)) \ breaks : i = 1 \/ (i - 1) \in breaks},
              {i \in (1..Len(s)) \ breaks : i = Len(s) \/ (i + 1) \in breaks})

\* the positions MULTI_NEWLINE_PATTERN (\n{2,}) matches: the newlines that
\* stand next to another newline
MultiNewlines(s) ==
    {i \in 1..Len(s) :
        /\ CharAt(s, i) = "\n"
        /\ \/ (i > 1 /\ CharAt(s, i - 1) = "\n")
           \/ (i < Len(s) /\ CharAt(s, i + 1) = "\n")}

\* str.splitlines() for the line ends that occur here
splitlines(s) == RunsOutside(s, {i \in 1..Len(s) : CharAt(s, i) = "\n"})

\* [x.strip() for x in seq]
StripAll(seq) == [i \in 1..Len(seq) |-> Strip(seq[i])]

\* the number of leading "#" of a line
LeadingHashes(line) ==
    Cardinality({k \in 1..Len(line) : \A j \in 1..k : CharAt(line, j) = "#"})

\* the number of leading digits of a line
LeadingDigits(line) ==
    Cardinality({k \in 1..Len(line) : \A j \in 1..k : CharAt(line, j) \in Digits})

\* HEADING_PATTERN.match(line): ^(#{1,6}\s+|[A-Z][A-Z\s]{6,}|\d+\.\s+)
HeadingMatch(line) ==
    \/ /\ LeadingHashes(line) \in 1..6
       /\ Len(line) > LeadingHashes(line)
       /\ IsSpace(CharAt(line, LeadingHashes(line) + 1))
    \/ /\ Len(line) >= 7
       /\ IsUpper(CharAt(line, 1))
       /\ \A j \in 2..7 : IsUpper(CharAt(line, j)) \/ IsSpace(CharAt(line, j))
    \/ /\ LeadingDigits(line) >= 1
       /\ Len(line) >= LeadingDigits(line) + 2
       /\ CharAt(line, LeadingDigits(line) + 1) = "."
       /\ IsSpace(CharAt(line, LeadingDigits(line) + 2))

RECURSIVE RefineLines(_, _, _, _)
\* the loop of structural_split over the lines of one part: a heading line
\* closes the lines gathered so far
RefineLines(lines, i, current, refined) ==
    IF i > Len(lines)
    THEN (IF current = <<>> THEN refined ELSE Append(refined, Strip(Join(" ", current))))
    ELSE IF HeadingMatch(Strip(lines[i])) /\ current # <<>>
    THEN RefineLines(lines, i + 1, <<Strip(lines[i])>>,
                     Append(refined, Strip(Join(" ", current))))
    ELSE RefineLines(lines, i + 1, Append(current, Strip(lines[i])), refined)

RECURSIVE RefineParts(_, _, _)
\* the loop of structural_split over the parts
RefineParts(parts, i, refined) ==
    IF i > Len(parts) THEN refined
    ELSE RefineParts(parts, i + 1, RefineLines(splitlines(parts[i]), 1, <<>>, refined))

\* structural_split
structural_split(text) ==
    SelectSeq(RefineParts(SelectSeq(StripAll(RunsOutside(text, MultiNewlines(text))),
                                    NonEmpty),
                          1, <<>>),
              NonEmpty)

\* the overlap semantic_pack passes to sliding_window_chunk
SemanticOverlap == 35

\* the buffer joined and appended to the chunks, if there is anything in it
Flush(chunks, buffer) ==
    IF buffer = <<>> THEN chunks ELSE AppendPiece(chunks, Strip(Join(" ", buffer)))

\* a paragraph longer than max_tokens that is left out of the chunks
OversizedDropped(para, target_tokens) == Returns(<<>>)

\* a paragraph longer than max_tokens: sliding windows of target_tokens over it
Oversized(para, target_tokens) == sliding_window_chunk(para, target_tokens, SemanticOverlap)

RECURSIVE PackLoop(_, _, _, _, _, _, _)
\* the for loop of semantic_pack, the sliding windows of an oversized paragraph
\* being sw
PackOversized(paragraphs, i, target_tokens, max_tokens, chunks, buffer, sw) ==
    IF sw.outcome # "return" THEN sw
    ELSE PackLoop(paragraphs, i + 1, target_tokens, max_tokens,
                  Flush(chunks, buffer) \o sw.chunks, <<>>, 0)

\* the for loop of semantic_pack for a paragraph of ptok_len tokens that is not
\* oversized
PackFitting(paragraphs, i, target_tokens, max_tokens, chunks, buffer, buffer_len, ptok_len) ==
    IF buffer_len + ptok_len <= max_tokens
    THEN IF buffer_len + ptok_len >= target_tokens
         THEN PackLoop(paragraphs, i + 1, target_tokens, max_tokens,
                       Flush(chunks, Append(buffer, paragraphs[i])), <<>>, 0)
         ELSE PackLoop(paragraphs, i + 1, target_tokens, max_tokens, chunks,
                       Append(buffer, paragraphs[i]), buffer_len + ptok_len)
    ELSE PackLoop(paragraphs, i + 1, target_tokens, max_tokens, Flush(chunks, buffer),
                  <<paragraphs[i]>>, ptok_len)

\* the for loop of semantic_pack from paragraph i on
PackLoop(paragraphs, i, target_tokens, max_tokens, chunks, buffer, buffer_len) ==
    IF i > Len(paragraphs) THEN Returns(Flush(chunks, buffer))
    ELSE IF Len(Split(paragraphs[i])) > max_tokens
    THEN PackOversized(paragraphs, i, target_tokens, max_tokens, chunks, buffer,
                       Oversized(paragraphs[i], target_tokens))
    ELSE PackFitting(paragraphs, i, target_tokens, max_tokens, chunks, buffer, buffer_len,
                     Len(Split(paragraphs[i])))

RECURSIVE PendingAfter(_, _, _, _, _)
\* buffer_len at the end of each iteration of the for loop of semantic_pack,
\* from paragraph i on (the loop stops where the sliding windows of an
\* oversized paragraph do not return)
PendingAfter(paragraphs, i, target_tokens, max_tokens, buffer_len) ==
    IF i > Len(paragraphs) THEN <<>>
    ELSE IF Len(Split(paragraphs[i])) > max_tokens
    THEN IF Oversized(paragraphs[i], target_tokens).outcome # "return" THEN <<>>
         ELSE <<0>> \o PendingAfter(paragraphs, i + 1, target_tokens, max_tokens, 0)
    ELSE IF buffer_len + Len(Split(paragraphs[i])) <= max_tokens
    THEN IF buffer_len + Len(Split(paragraphs[i])) >= target_tokens
         THEN <<0>> \o PendingAfter(paragraphs, i + 1, target_tokens, max_tokens, 0)
         ELSE <<buffer_len + Len(Split(paragraphs[i]))>>
              \o PendingAfter(paragraphs, i + 1, target_tokens, max_tokens,
                              buffer_len + Len(Split(paragraphs[i])))
    ELSE <<Len(Split(paragraphs[i]))>>
         \o PendingAfter(paragraphs, i + 1, target_tokens, max_tokens,
                         Len(Split(paragraphs[i])))

\* semantic_pack
semantic_pack(paragraphs, target_tokens, max_tokens) ==
    PackLoop(paragraphs, 1, target_tokens, max_tokens, <<>>, <<>>, 0)

HybridKeyChars == 120

RECURSIVE UniqueByKey(_, _, _, _)
\* the chunks whose first 120 characters were not seen before, in order
UniqueByKey(chunks, i, seen, merged) ==
    IF i > Len(chunks) THEN merged
    ELSE IF Prefix(chunks[i].text, HybridKeyChars) \in seen
    THEN UniqueByKey(chunks, i + 1, seen, merged)
    ELSE UniqueByKey(chunks, i + 1, seen \cup {Prefix(chunks[i].text, HybridKeyChars)},
                     Append(merged, chunks[i]))

\* the enrichment of the hybrid strategy with the sliding windows sw
Enriched(primary, sw) ==
    IF sw.outcome # "return" THEN sw
    ELSE Returns(UniqueByKey(primary.chunks \o sw.chunks, 1, {}, <<>>))

\* the hybrid strategy once its packed chunks are known: sparse chunks of a
\* long text (len(text.split()) > max_tokens * 1.8) are enriched
Hybrid(text, primary, max_tokens, overlap) ==
    IF primary.outcome # "return" THEN primary
    ELSE IF Len(primary.chunks) <= 2 /\ 5 * Len(Split(text)) > 9 * max_tokens
    THEN Enriched(primary, sliding_window_chunk(text, max_tokens, overlap))
    ELSE primary

\* semantic_chunk on the stripped text
ChunkStripped(text, strategy, target_tokens, max_tokens, overlap) ==
    IF text = "" THEN Returns(<<>>)
    ELSE IF strategy = "sliding" THEN sliding_window_chunk(text, target_tokens, overlap)
    ELSE IF strategy = "structural" THEN Returns(Chunks(structural_split(text)))
    ELSE IF strategy = "semantic"
    THEN semantic_pack(_split_sentences(text), target_tokens, max_tokens)
    ELSE Hybrid(text, semantic_pack(structural_split(text), target_tokens, max_tokens),
                max_tokens, overlap)

Raises == [outcome |-> "raise", chunks |-> <<>>]

\* a semantic_chunk that strips its argument as it is: None has no strip()
semantic_chunk_strict(text, strategy, target_tokens, max_tokens, overlap) ==
    IF text = <<>> THEN Raises
    ELSE ChunkStripped(Strip(text[1]), strategy, target_tokens, max_tokens, overlap)

\* semantic_chunk; the text is <<>> for None and <<s>> for the str s, and
\* (text or "") is "" for None
semantic_chunk(text, strategy, target_tokens, max_tokens, overlap) ==
    ChunkStripped(Strip(IF text = <<>> THEN "" ELSE text[1]), strategy, target_tokens,
                  max_tokens, overlap)

\* load_knowledge_chunks chunks a text of more than this many words
ChunkAboveWords == 220

\* the defaults of semantic_chunk
DefaultTargetTokens == 110

DefaultMaxTokens == 180

DefaultOverlap == 35

\* the defaults of _deduplicate_and_limit
DEDUPE_MIN_CHARS == 100

DEDUPE_HASH_LEN == 300

\* the texts of a list of chunks
TextsOf(chunks) == [i \in 1..Len(chunks) |-> chunks[i].text]

\* the chunk texts load_knowledge_chunks makes of one source text: the texts
\* of semantic_chunk(raw_text) if it has more than 220 words, else the text
\* as it is
TextChunks(raw_text) ==
    IF Len(Split(raw_text)) > ChunkAboveWords
    THEN semantic_chunk(<<raw_text>>, "hybrid", DefaultTargetTokens, DefaultMaxTokens,
                        DefaultOverlap)
    ELSE Returns(<<[text |-> raw_text]>>)

RECURSIVE ChunkAll(_, _, _)
\* the chunking loop of load_knowledge_chunks over all_texts from text i on
ChunkAll(all_texts, i, texts) ==
    IF i > Len(all_texts) THEN Returns(texts)
    ELSE IF TextChunks(all_texts[i]).outcome # "return" THEN TextChunks(all_texts[i])
    ELSE ChunkAll(all_texts, i + 1, texts \o TextsOf(TextChunks(all_texts[i]).chunks))

\* ' '.join(txt.lower().split())[:hash_len]
DedupeKey(txt) == Prefix(Join(" ", Split(Lower(txt))), DEDUPE_HASH_LEN)

RECURSIVE DeduplicateFrom(_, _, _, _, _)
\* the loop of _deduplicate_and_limit from chunk i on; max_chunks is 0 for None
DeduplicateFrom(texts, i, seen, filtered, max_chunks) ==
    IF i > Len(texts) THEN filtered
    ELSE IF Len(texts[i]) < DEDUPE_MIN_CHARS \/ DedupeKey(texts[i]) \in seen
    THEN DeduplicateFrom(texts, i + 1, seen, filtered, max_chunks)
    ELSE IF max_chunks # 0 /\ Len(filtered) + 1 >= max_chunks
    THEN Append(filtered, texts[i])
    ELSE DeduplicateFrom(texts, i + 1, seen \cup {DedupeKey(texts[i])},
                         Append(filtered, texts[i]), max_chunks)

\* _deduplicate_and_limit; kb_config is <<>> for a knowledge base without
\* config, else <<c>>
_deduplicate_and_limit(texts, kb_config) ==
    IF Len(texts) = 0 \/ kb_config = <<>> THEN texts
    ELSE IF kb_config[1].UNLIMITED_INGEST THEN texts
    ELSE DeduplicateFrom(texts, 1, {}, <<>>, kb_config[1].MAX_TOTAL_CHUNKS)

\* the chunks once the chunking loop is over
Deduplicated(chunked, kb_config) ==
    IF chunked.outcome # "return" THEN chunked
    ELSE Returns(_deduplicate_and_limit(chunked.chunks, kb_config))

\* AyurvedaKnowledgeBase.load_knowledge_chunks on the gathered texts: the
\* texts of the chunks it leaves in knowledge_chunks
load_knowledge_chunks(all_texts, kb_config) ==
    Deduplicated(ChunkAll(all_texts, 1, <<>>), kb_config)

(***************************************************************************)
(* Calls of the chunking functions                                         *)
(***************************************************************************)
LongParaTokens == 38

\* the i-th of the pairwise different tokens aa, ab, ac, ...
TokenName(i) == LowerChars[((i - 1) \div 26) + 1] \o LowerChars[((i - 1) % 26) + 1]

\* one paragraph of LongParaTokens different tokens
LongPara == Join(" ", [i \in 1..LongParaTokens |-> TokenName(i)])

ChunkTexts ==
    {"", "   ", "a b c d e", "a b c d\n\ne f g h", "# H1\nx y\n# H2\nz\n\nk",
     "Aa bb. Cc dd! Ee ff", LongPara, "a b\n\n" \o LongPara}

WindowSizes == {1, 2, 3, 36}

Overlaps == {0, 1, 2, 35}

\* <<target_tokens, max_tokens>>; the last pair holds the defaults
PackSizes == {<<2, 3>>, <<3, 4>>, <<36, 37>>, <<110, 180>>}

Strategies == {"sliding", "structural", "semantic", "hybrid"}

ParagraphLists ==
    {<<>>, <<"a b", "c">>, <<"a", "b c", "d e f", "g">>, <<"a b c d", "e f g h">>,
     <<"a", "b c d", "e">>, <<LongPara>>, <<"a b", LongPara, "c d">>}

\* one call is made on a process that has just started
InitChunking ==
    /\ DEPENDENCIES_AVAILABLE = TRUE
    /\ config \in [EMBEDDING_MODEL : {"sentence-transformers/all-MiniLM-L6-v2"},
                    USE_HYBRID_RETRIEVAL : {TRUE}]
    /\ hashSeed = 1
    /\ enable_wordnet = FALSE
    /\ Fresh

\* the RAG system, which the chunking and query functions leave alone
system ==
    <<DEPENDENCIES_AVAILABLE, config, hashSeed, enable_wordnet, knowledge_chunks,
      document_chunks, sentence_transformer, faiss_index, hybrid_retriever, index_file,
      emb_file, meta_file>>

SlidingWindowChunk(text, window_tokens, overlap_tokens) ==
    /\ last.op = "none"
    /\ last' = [op |-> "sliding_window_chunk", text |-> text,
                window_tokens |-> window_tokens, overlap_tokens |-> overlap_tokens,
                ret |-> sliding_window_chunk(text, window_tokens, overlap_tokens)]
    /\ UNCHANGED system

SemanticPack(paragraphs, target_tokens, max_tokens) ==
    /\ last.op = "none"
    /\ last' = [op |-> "semantic_pack", paragraphs |-> paragraphs,
                target_tokens |-> target_tokens, max_tokens |-> max_tokens,
                ret |-> semantic_pack(paragraphs, target_tokens, max_tokens),
                pending |-> PendingAfter(paragraphs, 1, target_tokens, max_tokens, 0)]
    /\ UNCHANGED system

SemanticChunk(text, strategy, target_tokens, max_tokens, overlap) ==
    /\ last.op = "none"
    /\ last' = [op |-> "semantic_chunk", text |-> text, strategy |-> strategy,
                target_tokens |-> target_tokens, max_tokens |-> max_tokens,
                overlap |-> overlap,
                ret |-> semantic_chunk(text, strategy, target_tokens, max_tokens, overlap)]
    /\ UNCHANGED system

\* n words w
Words(w, n) == Strip(Rep(w \o " ", n))

\* source texts at and around the two thresholds of load_knowledge_chunks
Documents ==
    {"Tulsi for fever.", Words("b", DefaultMaxTokens), Words("c", DefaultMaxTokens + 1),
     Words("c", ChunkAboveWords), Words("d", ChunkAboveWords + 1),
     Words("e", 150) \o "\n\n" \o Words("f", 100)}

\* the texts gathered from the data files and the curated list
GatheredTexts == {<<d>> : d \in Documents} \cup {<<d, e>> : d, e \in Documents}

\* the knowledge base's config: none, or one with these attributes
KbConfigs ==
    {<<>>} \cup {<<c>> : c \in [UNLIMITED_INGEST : BOOLEAN, MAX_TOTAL_CHUNKS : {0, 2}]}

LoadKnowledgeChunks(all_texts, kb_config, ret) ==
    /\ last.op = "none"
    /\ ret.outcome = "return"
    /\ knowledge_chunks' = ret.chunks
    /\ last' = [op |-> "load_knowledge_chunks", all_texts |-> all_texts,
                kb_config |-> kb_config]
    /\ UNCHANGED <<DEPENDENCIES_AVAILABLE, config, hashSeed, enable_wordnet, document_chunks,
                   sentence_transformer, faiss_index, hybrid_retriever, index_file, emb_file,
                   meta_file>>

NextChunking ==
    \/ \E text \in ChunkTexts, window_tokens \in WindowSizes, overlap_tokens \in Overlaps :
          SlidingWindowChunk(text, window_tokens, overlap_tokens)
    \/ \E paragraphs \in ParagraphLists, sizes \in PackSizes :
          SemanticPack(paragraphs, sizes[1], sizes[2])
    \/ \E text \in {<<>>} \cup {<<t>> : t \in ChunkTexts}, strategy \in Strategies,
          sizes \in PackSizes, overlap \in Overlaps :
          SemanticChunk(text, strategy, sizes[1], sizes[2], overlap)
    \/ \E all_texts \in GatheredTexts, kb_config \in KbConfigs :
          LoadKnowledgeChunks(all_texts, kb_config,
                              load_knowledge_chunks(all_texts, kb_config))

SpecChunking == InitChunking /\ [][NextChunking]_vars

(***************************************************************************)
(* Calls of QueryProcessor.multi_queries                                   *)
(***************************************************************************)
MaxVariants == 4

QueryInputs ==
    Queries \cup {"Fever", "  ", "fever heart", "heart OR cardiac OR cardiovascular"}

\* a process with any hash seed, with or without WordNet
InitQuery ==
    /\ DEPENDENCIES_AVAILABLE = TRUE
    /\ config \in [EMBEDDING_MODEL : {"sentence-transformers/all-MiniLM-L6-v2"},
                    USE_HYBRID_RETRIEVAL : {TRUE}]
    /\ hashSeed \in 1..NumSeeds
    /\ enable_wordnet \in BOOLEAN
    /\ Fresh

MultiQueries(query, max_variants) ==
    /\ last.op = "none"
    /\ last' = [op |-> "multi_queries", query |-> query, max_variants |-> max_variants,
                ret |-> multi_queries(query, max_variants, enable_wordnet, hashSeed)]
    /\ UNCHANGED system

NextQuery ==
    \E query \in QueryInputs, max_variants \in 0..MaxVariants :
       MultiQueries(query, max_variants)

SpecQuery == InitQuery /\ [][NextQuery]_vars

(***************************************************************************)
(* EntityExtractor (src/src/entity_extractor.py)                           *)
(***************************************************************************)
\* sorted(GAZETTEER): HERB_TERMS + CONDITION_TERMS + CORE_CONCEPTS
SortedGazetteer ==
    <<"acidity", "agni", "ajwain", "ama", "amla", "arjuna", "arthritis", "ashwagandha",
      "asthma", "brahmi", "cardiac", "cold", "cough", "cumin", "digestion", "fatigue",
      "fennel", "fever", "giloy", "ginger", "guggulu", "heart", "hing", "immunity",
      "insomnia", "jwara", "kapha", "licorice", "mulethi", "ojas", "panchakarma", "pitta",
      "respiratory", "shatavari", "stress", "triphala", "tulsi", "turmeric", "vata">>

GAZETTEER == Range(SortedGazetteer)

\* sorted(found) for a set of gazetteer terms
SortedTerms(found) == SelectSeq(SortedGazetteer, LAMBDA g : g \in found)

\* the gazetteer terms that are whole words of the text
FoundByToken(text_lower) == {g \in GAZETTEER : g \in Range(Split(text_lower))}

\* {g for g in GAZETTEER if g in text_lower}
FoundBySubstring(text_lower) == {g \in GAZETTEER : IsSubstring(g, text_lower)}

\* \w of the regular expressions
IsWordChar(c) == IsUpper(c) \/ IsLower(c) \/ c \in Digits \/ c = "_"

\* the number of lower-case letters that follow position i without a break
LowerRun(s, i) ==
    Cardinality({j \in (i + 1)..Len(s) : \A k \in (i + 1)..j : IsLower(CharAt(s, k))})

\* \b[A-Z][a-z]{min_lower,}\b matches at position i
CapWordAt(s, i, min_lower) ==
    /\ IsUpper(CharAt(s, i))
    /\ i = 1 \/ ~IsWordChar(CharAt(s, i - 1))
    /\ LowerRun(s, i) >= min_lower
    /\ i + LowerRun(s, i) = Len(s) \/ ~IsWordChar(CharAt(s, i + LowerRun(s, i) + 1))

\* the positions where a capitalized word starts, leftmost first
CapStarts(s, min_lower) ==
    Ascending({i \in 1..Len(s) : CapWordAt(s, i, min_lower)}, 1, Len(s))

\* re.findall(r"\b([A-Z][a-z]{3,})\b", sample), as a set
CapsMatches(sample) ==
    {SubSeq(sample, i, i + LowerRun(sample, i)) : i \in Range(CapStarts(sample, 3))}

\* the capitalized word at q follows the one at p after whitespace only
FollowsAfterSpace(s, p, q) ==
    /\ q >= p + LowerRun(s, p) + 2
    /\ \A k \in (p + LowerRun(s, p) + 1)..(q - 1) : IsSpace(CharAt(s, k))

\* how many further capitalized words (0 to 2) the match that starts with
\* word k of `starts` takes in
Extension(s, starts, k) ==
    IF k + 1 <= Len(starts) /\ FollowsAfterSpace(s, starts[k], starts[k + 1])
    THEN IF k + 2 <= Len(starts) /\ FollowsAfterSpace(s, starts[k + 1], starts[k + 2])
         THEN 2 ELSE 1
    ELSE 0

RECURSIVE NounPhrasesFrom(_, _, _)
\* the matches of _np_pattern from capitalized word k on
NounPhrasesFrom(s, starts, k) ==
    IF k > Len(starts) THEN <<>>
    ELSE <<SubSeq(s, starts[k],
                  starts[k + Extension(s, starts, k)]
                  + LowerRun(s, starts[k + Extension(s, starts, k)]))>>
         \o NounPhrasesFrom(s, starts, k + Extension(s, starts, k) + 1)

\* self._np_pattern.findall(sample): \b([A-Z][a-z]+(?:\s+[A-Z][a-z]+){0,2})\b
NounPhrases(sample) == NounPhrasesFrom(sample, CapStarts(sample, 1), 1)

\* the terms the capitalized-word heuristic adds
CapsTerms(sample) == {Lower(c) : c \in CapsMatches(sample)} \cap GAZETTEER

\* the terms the capitalized-phrase heuristic adds
PhraseTerms(sample) ==
    UNION {Range(Split(Lower(m))) : m \in Range(NounPhrases(sample))} \cap GAZETTEER

\* EntityExtractor.extract without spaCy (self.model is None): the gazetteer
\* list, the NER list, and what each heuristic found
extract(text, max_chars) ==
    [gazetteer |-> SortedTerms(FoundBySubstring(Lower(text))
                               \cup CapsTerms(Prefix(text, max_chars))
                               \cup PhraseTerms(Prefix(text, max_chars))),
     ner |-> <<>>,
     caps |-> CapsTerms(Prefix(text, max_chars)),
     phrases |-> NounPhrases(Prefix(text, max_chars))]

(***************************************************************************)
(* Calls of EntityExtractor.extract                                        *)
(***************************************************************************)
EntityTexts ==
    {"", "tulsi", "Tulsi", "TULSI", "Tulsi helps Fever", "Ama and Vata", "Hing", "Drama",
     "tulsiFever", "FeverX Giloy", "Ashwagandha Tulsi Giloy Brahmi", "Cold Cough\tAsthma",
     "The Heart", "Use Amla.", "Agni_Ojas", "9Tulsi Kapha", "Pitta, Kapha", "Turmeric milk",
     "no herbs here", "Stressful Day", "Amalaki", "Fennel\nCumin Ginger", "A Tulsi",
     "Mr Arjuna Tree Bark", "kapha-Pitta", "Jwara!"}

MaxChars == {3, 5, 12, 4000}

Extract(text, max_chars) ==
    /\ last.op = "none"
    /\ last' = [op |-> "extract", text |-> text, max_chars |-> max_chars,
                ret |-> extract(text, max_chars)]
    /\ UNCHANGED system

NextEntities == \E text \in EntityTexts, max_chars \in MaxChars : Extract(text, max_chars)

SpecEntities == InitChunking /\ [][NextEntities]_vars

(***************************************************************************)
(* rag_pipeline and ResponseGenerator.generate_response                    *)
(***************************************************************************)
\* how RAGSystem.generate ends for a non-empty evidence list: with an answer,
\* without one, or with an exception of the OpenRouter client
GenerateOutcomes == {"answer", "none", "raise"}

\* (None, [])
Nothing == [outcome |-> "return", answer |-> <<>>, chunks |-> <<>>]

\* RAGSystem.generate; an answer is <<>> for None
generate(retrieved_chunks, gen) ==
    IF retrieved_chunks = <<>> THEN Nothing
    ELSE IF gen = "raise" THEN [outcome |-> "raise", answer |-> <<>>, chunks |-> <<>>]
    ELSE [outcome |-> "return", answer |-> IF gen = "answer" THEN <<"answer">> ELSE <<>>,
          chunks |-> retrieved_chunks]

\* RAGSystem.rag_pipeline, r being what its retrieve call did: every exception
\* ends in (None, [])
rag_pipeline(r, gen) ==
    IF r.path = "raise" THEN Nothing
    ELSE IF r.result = <<>> THEN Nothing
    ELSE IF generate(r.result, gen).outcome = "raise" THEN Nothing
    ELSE generate(r.result, gen)

\* RAGSystem.is_ready
is_ready(chunks) == Len(chunks) > 0

\* ResponseGenerator.generate_response, p being what rag_pipeline returned:
\* the prompt for a more specific question, the formatted evidence, or a
\* template answer
generate_response(message, ready, p) ==
    IF message = "" \/ Len(Strip(message)) < 3 THEN [kind |-> "prompt", chunks |-> <<>>]
    ELSE IF ready /\ p.outcome = "return" /\ p.chunks # <<>>
    THEN [kind |-> "rag", chunks |-> p.chunks]
    ELSE [kind |-> "template", chunks |-> <<>>]

\* the state after a generate_response call whose retrieve call did r
Responded(message, r, gen) ==
    /\ last' = [op |-> "generate_response", message |-> message, retrieval |-> r,
                pipeline |-> rag_pipeline(r, gen),
                response |-> generate_response(message, is_ready(document_chunks),
                                               rag_pipeline(r, gen))]
    /\ UNCHANGED system

\* a call of ResponseGenerator.generate_response
GenerateResponse(message, failAt, encodeOk, gen) ==
    Responded(message,
              retrieve(hybrid_retriever, faiss_index, sentence_transformer, document_chunks,
                       config.EMBEDDING_MODEL, enable_wordnet, hashSeed, message, <<>>,
                       failAt, encodeOk),
              gen)

NextAnswer ==
    \/ \E c \in RetrievalCorpora : load_knowledge_base(c, TRUE)
    \/ initialize_sentence_transformer(TRUE)
    \/ \E force_rebuild \in BOOLEAN :
          initialize_faiss_index(force_rebuild, "none", <<"ok", "ok", "ok">>)
    \/ \E query \in Queries, top_k \in TopKs, failAt \in 0..MaxFailAt, encodeOk \in BOOLEAN :
          Retrieve(query, top_k, failAt, encodeOk)
    \/ \E message \in Queries, failAt \in 0..MaxFailAt, encodeOk \in BOOLEAN,
          gen \in GenerateOutcomes :
          GenerateResponse(message, failAt, encodeOk, gen)

SpecAnswer == InitRetrieve /\ [][NextAnswer]_vars

(***************************************************************************)
(* initialize_faiss_index statement by statement, with other calls between *)
(* its statements (RAGSystem takes no lock)                                *)
(***************************************************************************)
\* the threads that may call initialize_faiss_index
Builders == {1, 2}

\* a thread that is not inside initialize_faiss_index
IdleBuild == [pc |-> "idle", chunks |-> <<>>, fp |-> <<>>]

\* the threads inside initialize_faiss_index (each thread makes one call)
Building == {t \in Builders : last.builds[t].pc \notin {"idle", "returned"}}

\* the calls in flight and the latest step, with thread t now at b
Threads(t, b, step) ==
    [op |-> "threads", builds |-> [last.builds EXCEPT ![t] = b], step |-> step]

\* the server as app.main() leaves it: the corpus loaded, the embedding model
\* loaded, the index built and saved, no call in flight
InitServing ==
    /\ DEPENDENCIES_AVAILABLE = TRUE
    /\ config \in [EMBEDDING_MODEL : {"sentence-transformers/all-MiniLM-L6-v2"},
                    USE_HYBRID_RETRIEVAL : BOOLEAN]
    /\ hashSeed = 1
    /\ enable_wordnet = FALSE
    /\ knowledge_chunks = CorpusA
    /\ document_chunks = CorpusA
    /\ sentence_transformer = TRUE
    /\ faiss_index = Index(CorpusA, config.EMBEDDING_MODEL)
    /\ hybrid_retriever = IF config.USE_HYBRID_RETRIEVAL
                          THEN HybridRetriever(Index(CorpusA, config.EMBEDDING_MODEL), CorpusA)
                          ELSE None
    /\ index_file = File(Index(CorpusA, config.EMBEDDING_MODEL))
    /\ emb_file = File([rows |-> Len(CorpusA)])
    /\ meta_file = File(Meta(Index(CorpusA, config.EMBEDDING_MODEL),
                             ComputeCorpusFingerprint(CorpusA, config.EMBEDDING_MODEL),
                             config.EMBEDDING_MODEL))
    /\ last = [op |-> "threads", builds |-> [t \in Builders |-> IdleBuild],
               step |-> [kind |-> "start"]]

\* load_knowledge_base between the statements of the calls in flight
ReloadKnowledgeBase(c) ==
    /\ knowledge_chunks' = c
    /\ document_chunks' = c
    /\ last' = [last EXCEPT !.step = [kind |-> "load_knowledge_base"]]
    /\ UNCHANGED <<DEPENDENCIES_AVAILABLE, config, hashSeed, enable_wordnet,
                   sentence_transformer, faiss_index, hybrid_retriever, index_file,
                   emb_file, meta_file>>

\* thread t enters the "Build new" part of initialize_faiss_index and encodes
\* the knowledge chunks it finds
EncodeChunks(t) ==
    /\ last.builds[t].pc = "idle"
    /\ DEPENDENCIES_AVAILABLE /\ sentence_transformer /\ Len(knowledge_chunks) > 0
    /\ last' = Threads(t, [pc |-> "encoded", chunks |-> knowledge_chunks, fp |-> <<>>],
                       [kind |-> "build", thread |-> t])
    /\ UNCHANGED system

\* self.faiss_index = faiss.IndexFlatIP(dimension)
CreateIndex(t) ==
    /\ last.builds[t].pc = "encoded"
    /\ faiss_index' = Index(<<>>, config.EMBEDDING_MODEL)
    /\ last' = Threads(t, [last.builds[t] EXCEPT !.pc = "created"],
                       [kind |-> "build", thread |-> t])
    /\ UNCHANGED <<DEPENDENCIES_AVAILABLE, config, hashSeed, enable_wordnet, knowledge_chunks,
                   document_chunks, sentence_transformer, hybrid_retriever, index_file,
                   emb_file, meta_file>>

\* self.faiss_index.add(embeddings): the vectors of thread t, added to the
\* index self.faiss_index names now
AddVectors(t) ==
    /\ last.builds[t].pc = "created"
    /\ faiss_index' = Index(faiss_index.texts \o last.builds[t].chunks, faiss_index.model)
    /\ last' = Threads(t, [last.builds[t] EXCEPT !.pc = "added"],
                       [kind |-> "build", thread |-> t])
    /\ UNCHANGED <<DEPENDENCIES_AVAILABLE, config, hashSeed, enable_wordnet, knowledge_chunks,
                   document_chunks, sentence_transformer, hybrid_retriever, index_file,
                   emb_file, meta_file>>

\* fp = self._compute_corpus_fingerprint() and, in _save_index,
\* faiss.write_index(self.faiss_index, ...)
WriteIndexFile(t) ==
    /\ last.builds[t].pc = "added"
    /\ index_file' = File(faiss_index)
    /\ last' = Threads(t, [last.builds[t] EXCEPT
                              !.pc = "index_written",
                              !.fp = ComputeCorpusFingerprint(knowledge_chunks,
                                                              config.EMBEDDING_MODEL)],
                       [kind |-> "build", thread |-> t])
    /\ UNCHANGED <<DEPENDENCIES_AVAILABLE, config, hashSeed, enable_wordnet, knowledge_chunks,
                   document_chunks, sentence_transformer, faiss_index, hybrid_retriever,
                   emb_file, meta_file>>

\* np.save(EMBEDDINGS_CACHE_PATH, embeddings)
SaveEmbeddings(t) ==
    /\ last.builds[t].pc = "index_written"
    /\ emb_file' = File([rows |-> Len(last.builds[t].chunks)])
    /\ last' = Threads(t, [last.builds[t] EXCEPT !.pc = "embeddings_saved"],
                       [kind |-> "build", thread |-> t])
    /\ UNCHANGED <<DEPENDENCIES_AVAILABLE, config, hashSeed, enable_wordnet, knowledge_chunks,
                   document_chunks, sentence_transformer, faiss_index, hybrid_retriever,
                   index_file, meta_file>>

\* json.dump(meta, f) with 'vectors': self.faiss_index.ntotal
WriteMetadata(t) ==
    /\ last.builds[t].pc = "embeddings_saved"
    /\ meta_file' = File(Meta(faiss_index, last.builds[t].fp, config.EMBEDDING_MODEL))
    /\ last' = Threads(t, [last.builds[t] EXCEPT !.pc = "saved"],
                       [kind |-> "build", thread |-> t])
    /\ UNCHANGED <<DEPENDENCIES_AVAILABLE, config, hashSeed, enable_wordnet, knowledge_chunks,
                   document_chunks, sentence_transformer, faiss_index, hybrid_retriever,
                   index_file, emb_file>>

\* self.hybrid_retriever = HybridRetriever(...) if configured; return True
FinishBuild(t) ==
    /\ last.builds[t].pc = "saved"
    /\ hybrid_retriever' = IF config.USE_HYBRID_RETRIEVAL
                           THEN HybridRetriever(faiss_index, document_chunks)
                           ELSE hybrid_retriever
    /\ last' = Threads(t, [last.builds[t] EXCEPT !.pc = "returned"],
                       [kind |-> "built", thread |-> t])
    /\ UNCHANGED <<DEPENDENCIES_AVAILABLE, config, hashSeed, enable_wordnet, knowledge_chunks,
                   document_chunks, sentence_transformer, faiss_index, index_file, emb_file,
                   meta_file>>

\* the chunk list a retrieve call pairs the searched index with
PairedChunks(path) ==
    IF path \in {"hybrid", "corrective"} THEN hybrid_retriever.document_chunks
    ELSE document_chunks

\* the step of a retrieve call that did r
Served(r) ==
    [kind |-> "retrieve", during |-> Building # {}, path |-> r.path, result |-> r.result,
     searched |-> Searched(r.path), chunks |-> PairedChunks(r.path)]

\* a retrieve call between the statements of the calls in flight
RetrieveMeanwhile(query, failAt) ==
    /\ last' = [last EXCEPT !.step =
                   Served(retrieve(hybrid_retriever, faiss_index, sentence_transformer,
                                   document_chunks, config.EMBEDDING_MODEL, enable_wordnet,
                                   hashSeed, query, <<>>, failAt, TRUE))]
    /\ UNCHANGED system

NextConcurrent ==
    \/ \E c \in RetrievalCorpora : ReloadKnowledgeBase(c)
    \/ \E t \in Builders : EncodeChunks(t)
    \/ \E t \in Builders : CreateIndex(t)
    \/ \E t \in Builders : AddVectors(t)
    \/ \E t \in Builders : WriteIndexFile(t)
    \/ \E t \in Builders : SaveEmbeddings(t)
    \/ \E t \in Builders : WriteMetadata(t)
    \/ \E t \in Builders : FinishBuild(t)
    \/ \E failAt \in 0..1 : RetrieveMeanwhile("fever tulsi", failAt)

SpecConcurrent == InitServing /\ [][NextConcurrent]_vars

(***************************************************************************)
(* Properties                                                              *)
(***************************************************************************)
\* the latest call was initialize_faiss_index and it ran _load_existing_index
LoadRan == last.op = "initialize_faiss_index" /\ last.load.ran

\* the three artifacts the load saw exist and can be read
ArtifactsReadable(t) ==
    /\ t.index_file.state = "ok"
    /\ t.emb_file.state = "ok"
    /\ t.meta_file.state = "ok"

\* C1: _load_existing_index reports a hit exactly when the index file, the
\* embedding cache and the metadata file all exist (and can be read), the
\* stored fingerprint equals the freshly computed one and the loaded index's
\* vector count equals the cached matrix's row count; in every other case it
\* reports a miss, and it never raises.
C1_LoadHitOnlyIfValid ==
    LoadRan =>
        /\ last.load.outcome \in {"hit", "miss"}
        /\ last.load.outcome = "hit" <=>
              /\ Exists(last.load.index_file)
              /\ Exists(last.load.emb_file)
              /\ Exists(last.load.meta_file)
              /\ ArtifactsReadable(last.load)
              /\ last.load.meta_file.content.fingerprint
                    = ComputeCorpusFingerprint(knowledge_chunks, config.EMBEDDING_MODEL)
              /\ NTotal(last.load.index_file.content) = last.load.emb_file.content.rows

\* a load that saw three readable artifacts with a matching fingerprint and
\* equal counts, and reported a hit
C1_Witness ==
    /\ LoadRan
    /\ last.load.outcome = "hit"
    /\ ArtifactsReadable(last.load)
    /\ NTotal(last.load.index_file.content) = last.load.emb_file.content.rows

\* C2: two corpora that differ in the text of a chunk, at any position and
\* offset, or that are paired with different model ids, have different
\* fingerprints; the same corpus and model id give the same fingerprint on
\* every call.
C2_FingerprintSeparates ==
    last.op = "fingerprint" =>
        /\ last.fp = last.again
        /\ (knowledge_chunks # last.chunks \/ config.EMBEDDING_MODEL # last.model)
              => last.fp # last.other_fp

\* two different corpora under the same model id were fingerprinted
C2_Witness ==
    /\ last.op = "fingerprint"
    /\ knowledge_chunks # last.chunks
    /\ config.EMBEDDING_MODEL = last.model

\* the fingerprint of the corpus and model an index was built from
IndexFingerprint(ix) == ComputeCorpusFingerprint(ix.texts, ix.model)

\* C3: the index a retrieve call searches is one whose fingerprint equals the
\* fingerprint of the current corpus and embedding model.
C3_SearchedIndexIsCurrent ==
    (last.op = "retrieve" /\ last.searched # None) =>
        IndexFingerprint(last.searched)
            = ComputeCorpusFingerprint(knowledge_chunks, config.EMBEDDING_MODEL)

\* a retrieve call searched an index
C3_Witness == last.op = "retrieve" /\ last.searched # None

\* C4: a persisted record whose metadata vector count differs from the
\* index's vector count or from the embedding matrix's row count makes the
\* load report a miss.
C4_VectorCountMismatchIsMiss ==
    (/\ LoadRan
     /\ ArtifactsReadable(last.load)
     /\ \/ last.load.meta_file.content.vectors # NTotal(last.load.index_file.content)
        \/ last.load.meta_file.content.vectors # last.load.emb_file.content.rows)
    => last.load.outcome = "miss"

\* a load saw a readable record whose metadata vector count is not the index's
C4_Witness ==
    /\ LoadRan
    /\ ArtifactsReadable(last.load)
    /\ last.load.meta_file.content.vectors # NTotal(last.load.index_file.content)

\* at most k results, each with a rank, the ranks being 1..len(results) in
\* list order and similarity_score non-increasing
WellRanked(results, k) ==
    /\ Len(results) <= k
    /\ \A i \in 1..Len(results) :
          /\ "rank" \in DOMAIN results[i]
          /\ results[i].rank = i
          /\ i < Len(results) =>
                ScoreLe(results[i + 1].similarity_score, results[i].similarity_score)

\* C5: on every retrieval path, retrieve with top_k = k >= 1 returns at most k
\* results, each carrying a rank, with ranks 1..len(results) strictly
\* increasing and similarity_score non-increasing in list order.
C5_ResultsWellRanked == last.op = "retrieve" => WellRanked(last.result, last.top_k)

\* a retrieve call returned a result on the keyword path
C5_Witness == last.op = "retrieve" /\ last.path = "keyword" /\ Len(last.result) > 0

\* the first hybrid_retriever.retrieve call of the latest retrieve returned
FirstPassReturned ==
    /\ last.op = "retrieve"
    /\ last.path \in {"hybrid", "corrective"} \/ last.calls >= 2

CorrectiveRan == last.op = "retrieve" /\ last.path = "corrective"

\* every first-pass and second-pass result of the latest retrieve
AllPasses == last.first \o Flatten(last.alt)

\* C7: after a corrective pass no two returned entries share the first 200
\* characters of their text, and for each such prefix the entry considered
\* for the result is one of maximum score among all first-pass and
\* second-pass results with that prefix.
C7_MergedByPrefixMax ==
    CorrectiveRan =>
        /\ \A i, j \in 1..Len(last.result) :
              i # j => Prefix(last.result[i].text, 200) # Prefix(last.result[j].text, 200)
        /\ \A i \in 1..Len(last.result) : last.result[i] \in Range(last.merged)
        /\ \A m \in Range(last.merged) : m \in Range(AllPasses)
        /\ \A r \in Range(AllPasses) :
              \E m \in Range(last.merged) :
                 /\ Prefix(m.text, 200) = Prefix(r.text, 200)
                 /\ ScoreLe(r.score, m.score)

\* a corrective pass whose passes returned two different texts with the same
\* 200-character prefix, and the same prefix with two different scores
C7_Witness ==
    /\ CorrectiveRan
    /\ \E r, q \in Range(AllPasses) :
          /\ r.text # q.text
          /\ Prefix(r.text, 200) = Prefix(q.text, 200)
    /\ \E r, q \in Range(AllPasses) :
          /\ Prefix(r.text, 200) = Prefix(q.text, 200)
          /\ ScoreLt(r.score, q.score)

\* C8: after a corrective pass the returned list is the merged set sorted by
\* score in non-increasing order and truncated to top_k: at most top_k
\* entries, all of them merged entries, and no merged entry left out has a
\* strictly higher score than an entry that was kept.
C8_MergedSortedTruncated ==
    CorrectiveRan =>
        /\ Len(last.result) = Min(last.top_k, Len(last.merged))
        /\ \A i \in 1..Len(last.result) : last.result[i] \in Range(last.merged)
        /\ \A i \in 1..(Len(last.result) - 1) :
              ScoreLe(last.result[i + 1].score, last.result[i].score)
        /\ \A m \in Range(last.merged) \ Range(last.result) :
              \A i \in 1..Len(last.result) : ~ScoreLt(last.result[i].score, m.score)

\* a corrective pass that merged more than top_k entries with different scores
C8_Witness ==
    /\ CorrectiveRan
    /\ Len(last.merged) > last.top_k
    /\ \E m \in Range(last.merged) : ScoreLt(m.score, last.result[1].score)

\* C9: one retrieve call makes the first pass and at most one corrective
\* pass; the corrective pass makes at most 4 retriever calls, one per query
\* variant, and a weak merged result triggers no further pass.
C9_CorrectiveBounded ==
    last.op = "retrieve" =>
        /\ Len(last.expanded) <= 4
        /\ Len(last.alt) <= Len(last.expanded)
        /\ last.calls <= 1 + Len(last.expanded)
        /\ last.calls <= 1 + 4

\* a corrective pass over several variants whose merged result is still weak
C9_Witness ==
    /\ CorrectiveRan
    /\ Len(last.expanded) >= 2
    /\ Len(last.result) < Max(3, last.top_k \div 2)
    /\ last.calls = 1 + Len(last.expanded)

\* C10: two runs of retrieve with the same query, top_k, corpus, index and
\* retriever behaviour issue the same expanded queries in the same order and
\* return the same ranked list.
C10_RetrieveDeterministic ==
    last.op = "retrieve" =>
        /\ last.expanded = last.other.expanded
        /\ last.result = last.other.result

\* two runs of one retrieve call both went through the corrective pass
C10_Witness ==
    /\ last.op = "retrieve"
    /\ last.path = "corrective"
    /\ last.other.path = "corrective"

\* the tokens are pairwise different, so that a token names its position
DistinctTokens(tokens) ==
    \A i, j \in 1..Len(tokens) : tokens[i] = tokens[j] => i = j

\* the position of a token in the input
PosOf(tokens, w) == CHOOSE i \in 1..Len(tokens) : tokens[i] = w

\* the stretch of the input a chunk holds: the positions of its first and its
\* last token
Stretch(tokens, chunk) ==
    [from |-> PosOf(tokens, Split(chunk.text)[1]),
     to |-> PosOf(tokens, Split(chunk.text)[Len(Split(chunk.text))])]

\* the chunks hold exactly the input's tokens from `from` to `to`
HoldsStretch(tokens, chunk) ==
    /\ Split(chunk.text) # <<>>
    /\ \A i \in 1..Len(Split(chunk.text)) : \E j \in 1..Len(tokens) :
          tokens[j] = Split(chunk.text)[i]
    /\ Split(chunk.text) =
          SubSeq(tokens, Stretch(tokens, chunk).from, Stretch(tokens, chunk).to)

SlidingCovers(tokens, chunks, overlap_tokens) ==
    /\ Len(chunks) >= 1
    /\ \A k \in 1..Len(chunks) : HoldsStretch(tokens, chunks[k])
    /\ \A p \in 1..Len(tokens) : \E k \in 1..Len(chunks) :
          Stretch(tokens, chunks[k]).from <= p /\ p <= Stretch(tokens, chunks[k]).to
    /\ \A k \in 1..(Len(chunks) - 1) :
          /\ Stretch(tokens, chunks[k]).from < Stretch(tokens, chunks[k + 1]).from
          /\ Stretch(tokens, chunks[k]).to - Stretch(tokens, chunks[k + 1]).from + 1
                = overlap_tokens
    /\ \A k \in 1..Len(chunks) :
          Stretch(tokens, chunks[k]).to = Len(tokens) <=> k = Len(chunks)

\* C11: sliding_window_chunk on a non-empty token sequence with
\* 0 <= overlap_tokens < window_tokens returns windows that are stretches of
\* the input in input order, cover every token position, share exactly
\* overlap_tokens tokens with their successor, and of which only the last ends
\* at the final token.
C11_SlidingWindowsCover ==
    (/\ last.op = "sliding_window_chunk"
     /\ Split(last.text) # <<>>
     /\ DistinctTokens(Split(last.text))
     /\ 0 <= last.overlap_tokens
     /\ last.overlap_tokens < last.window_tokens)
    => /\ last.ret.outcome = "return"
       /\ SlidingCovers(Split(last.text), last.ret.chunks, last.overlap_tokens)

\* a text of LongParaTokens tokens cut into overlapping windows shorter than it
C11_Witness ==
    /\ last.op = "sliding_window_chunk"
    /\ Len(Split(last.text)) = LongParaTokens
    /\ last.window_tokens = 3
    /\ last.overlap_tokens = 2
    /\ last.ret.outcome = "return"
    /\ Len(last.ret.chunks) = LongParaTokens - 2

\* the call recorded is a chunking call with positive size settings
ChunkingCalled ==
    \/ /\ last.op = "sliding_window_chunk"
       /\ last.window_tokens > 0
       /\ last.overlap_tokens > 0
    \/ /\ last.op = "semantic_pack"
       /\ last.target_tokens > 0
       /\ last.max_tokens > 0
    \/ /\ last.op = "semantic_chunk"
       /\ last.target_tokens > 0
       /\ last.max_tokens > 0
       /\ last.overlap > 0

\* C12: every call of sliding_window_chunk, semantic_pack and semantic_chunk
\* with positive window/target_tokens, max_tokens and overlap returns: its
\* sliding-window loop reaches the end of the token sequence.
C12_ChunkingReturns == ChunkingCalled => last.ret.outcome = "return"

\* a semantic_pack call that cut an oversized paragraph into windows and returned
C12_Witness ==
    /\ last.op = "semantic_pack"
    /\ last.paragraphs = <<LongPara>>
    /\ last.target_tokens > SemanticOverlap
    /\ last.ret.outcome = "return"
    /\ Len(last.ret.chunks) > 1
\* the text argument is None, the empty string or whitespace only
BlankText(text) ==
    text = <<>> \/ \A i \in 1..Len(text[1]) : IsSpace(CharAt(text[1], i))

\* C13: for every strategy, semantic_chunk of an empty string, of a
\* whitespace-only string and of None returns the empty list; it does not raise.
C13_BlankTextGivesNoChunks ==
    (last.op = "semantic_chunk" /\ BlankText(last.text)) => last.ret = Returns(<<>>)

\* the hybrid strategy was called with None
C13_Witness ==
    /\ last.op = "semantic_chunk"
    /\ last.text = <<>>
    /\ last.strategy = "hybrid"
    /\ last.ret = Returns(<<>>)
\* C14: every unit semantic_chunk returns for a non-blank text, whatever the
\* strategy, has at least 1 token and at most max_tokens plus the overlap of
\* the sliding windows.
C14_UnitsWithinMaxTokens ==
    (/\ last.op = "semantic_chunk"
     /\ ~BlankText(last.text)
     /\ last.ret.outcome = "return")
    => \A k \in 1..Len(last.ret.chunks) :
          /\ Len(Split(last.ret.chunks[k].text)) >= 1
          /\ Len(Split(last.ret.chunks[k].text)) <= last.max_tokens + last.overlap

\* the hybrid strategy with the default sizes returned units for a text
C14_Witness ==
    /\ last.op = "semantic_chunk"
    /\ last.strategy = "hybrid"
    /\ last.target_tokens = 110
    /\ last.text = <<LongPara>>
    /\ last.ret.outcome = "return"
    /\ Len(last.ret.chunks) >= 1
\* the tokens of all paragraphs, in input order
AllTokens(paragraphs) == Split(Join(" ", paragraphs))

\* the positions, among all tokens, of the tokens of paragraph p
ParagraphSpan(paragraphs, p) ==
    (Len(AllTokens(SubSeq(paragraphs, 1, p - 1))) + 1)
        ..Len(AllTokens(SubSeq(paragraphs, 1, p)))

PackKeepsInput(paragraphs, chunks, max_tokens) ==
    /\ \A k \in 1..Len(chunks) : HoldsStretch(AllTokens(paragraphs), chunks[k])
    /\ \A pos \in 1..Len(AllTokens(paragraphs)) : \E k \in 1..Len(chunks) :
          /\ Stretch(AllTokens(paragraphs), chunks[k]).from <= pos
          /\ pos <= Stretch(AllTokens(paragraphs), chunks[k]).to
    /\ \A k \in 1..(Len(chunks) - 1) :
          /\ Stretch(AllTokens(paragraphs), chunks[k]).from
                < Stretch(AllTokens(paragraphs), chunks[k + 1]).from
          /\ Stretch(AllTokens(paragraphs), chunks[k]).to
                <= Stretch(AllTokens(paragraphs), chunks[k + 1]).to
    /\ \A p \in 1..Len(paragraphs) :
          Len(Split(paragraphs[p])) > max_tokens =>
             \A k \in 1..Len(chunks) :
                \/ Stretch(AllTokens(paragraphs), chunks[k]).to
                      < CHOOSE x \in ParagraphSpan(paragraphs, p) :
                           \A y \in ParagraphSpan(paragraphs, p) : x <= y
                \/ Stretch(AllTokens(paragraphs), chunks[k]).from
                      > CHOOSE x \in ParagraphSpan(paragraphs, p) :
                           \A y \in ParagraphSpan(paragraphs, p) : x >= y
                \/ /\ Stretch(AllTokens(paragraphs), chunks[k]).from
                         \in ParagraphSpan(paragraphs, p)
                   /\ Stretch(AllTokens(paragraphs), chunks[k]).to
                         \in ParagraphSpan(paragraphs, p)
                   /\ Len(Split(chunks[k].text)) <= max_tokens

\* C15: a semantic_pack call that returns drops nothing: its units are
\* stretches of the input in input order that together hold every token of
\* every paragraph, and a paragraph longer than max_tokens is held by units of
\* its own (sliding windows over it, the buffer before it being flushed), none
\* of them longer than max_tokens.
C15_PackKeepsInput ==
    (/\ last.op = "semantic_pack"
     /\ DistinctTokens(AllTokens(last.paragraphs))
     /\ last.ret.outcome = "return")
    => PackKeepsInput(last.paragraphs, last.ret.chunks, last.max_tokens)

\* an oversized paragraph between two short ones was cut into three windows
C15_Witness ==
    /\ last.op = "semantic_pack"
    /\ last.paragraphs = <<"a b", LongPara, "c d">>
    /\ last.target_tokens = SemanticOverlap + 1
    /\ last.max_tokens < LongParaTokens
    /\ last.ret.outcome = "return"
    /\ Len(last.ret.chunks) = 2 + (LongParaTokens - SemanticOverlap)
\* C16: multi_queries returns at most max_variants strings, for every
\* max_variants >= 0.
C16_AtMostMaxVariants ==
    (last.op = "multi_queries" /\ last.max_variants >= 0)
    => Len(last.ret) <= last.max_variants

\* a call whose candidates were cut to max_variants = 2
C16_Witness ==
    /\ last.op = "multi_queries"
    /\ last.query = "heart digestion"
    /\ last.max_variants = 2
    /\ Len(last.ret) = 2
\* the domain terms of a query: the keys of DOMAIN_SYNONYMS among the words
\* of its lower-cased base
DomainTermsOf(query) ==
    {t \in Range(Split(Lower(normalize(disambiguate(query))))) :
        t \in DOMAIN DOMAIN_SYNONYMS}

\* the string holds one of the domain synonyms of the term
Augmented(s, dt) ==
    \E k \in 1..Len(DOMAIN_SYNONYMS[dt]) : IsSubstring(DOMAIN_SYNONYMS[dt][k], Lower(s))

\* the strings are not empty and pairwise different whatever the case, the
\* first is the base query, and, from `enough` variants on, every domain term
\* of the query has a string that holds one of its synonyms
VariantsWellFormed(query, max_variants, ret, enough) ==
    /\ \A i \in 1..Len(ret) : ret[i] # ""
    /\ \A i, j \in 1..Len(ret) : Lower(ret[i]) = Lower(ret[j]) => i = j
    /\ Len(ret) >= 1 => ret[1] = normalize(disambiguate(query))
    /\ normalize(disambiguate(query)) # "" => Len(ret) >= 1
    /\ max_variants >= enough =>
          \A dt \in DomainTermsOf(query) : \E i \in 1..Len(ret) : Augmented(ret[i], dt)

\* C17: the strings multi_queries returns are non-empty and pairwise distinct
\* under case-insensitive comparison, the first is the normalized and
\* disambiguated base query, and with max_variants >= 3 every domain term of
\* the query has a returned string that holds one of its domain synonyms.
C17_VariantsWellFormed ==
    last.op = "multi_queries"
    => VariantsWellFormed(last.query, last.max_variants, last.ret, 3)

\* C17 as stated, with the synonym-augmented variant promised from
\* max_variants >= 2 on
C17_AsStated ==
    last.op = "multi_queries"
    => VariantsWellFormed(last.query, last.max_variants, last.ret, 2)

\* a query with two domain terms got its base, an expanded and a structured variant
C17_Witness ==
    /\ last.op = "multi_queries"
    /\ Cardinality(DomainTermsOf(last.query)) = 2
    /\ last.max_variants = 3
    /\ Len(last.ret) = 3
\* C18: retrieve returns the empty list for an empty or whitespace-only query
\* and for an empty corpus, on the hybrid, the vector-only and the keyword
\* path alike.
C18_MalformedInputGivesNothing ==
    (/\ last.op = "retrieve"
     /\ \/ \A i \in 1..Len(last.query) : IsSpace(CharAt(last.query, i))
        \/ document_chunks = <<>>)
    => last.result = <<>>

\* the keyword path was taken for the empty query over a loaded corpus
C18_Witness ==
    /\ last.op = "retrieve"
    /\ last.query = ""
    /\ last.path = "keyword"
    /\ document_chunks # <<>>
    /\ last.result = <<>>
\* C19: a hard failure is reported to the caller: initialize_faiss_index does
\* not return True when a write of the record it persists fails or when the
\* embedding call of the build raises, and retrieve does not return a result
\* list when the embedding call of the query raises.
C19_HardFailuresReported ==
    /\ (/\ last.op = "initialize_faiss_index"
        /\ last.built
        /\ last.writes # <<"ok", "ok", "ok">>)
       => last.ret # "True"
    /\ (/\ last.op = "initialize_faiss_index"
        /\ "raised" \in DOMAIN last
        /\ last.raised = "encode")
       => last.ret # "True"
    /\ (/\ last.op = "retrieve"
        /\ last.path \in {"vector", "keyword", "raise"}
        /\ last.caught = "encode")
       => last.path = "raise"

\* the embedding call of a build raised and the build returned False
C19_Witness ==
    /\ last.op = "initialize_faiss_index"
    /\ "raised" \in DOMAIN last
    /\ last.raised = "encode"
    /\ ~last.built
    /\ last.ret = "False"
\* what a retrieve call did is best effort: it returned on one of the four
\* paths; when the hybrid retriever was there and the call did not end on it,
\* it ended on the vector-only path if index and model are loaded and nothing
\* was caught there, and on keyword matching otherwise; when there is no
\* hybrid retriever the same holds; and the keyword path returns the keyword
\* matches of the query
BestEffort(r) ==
    /\ r.path \in {"hybrid", "corrective", "vector", "keyword"}
    /\ hybrid_retriever = None => r.path \in {"vector", "keyword"}
    /\ r.path \in {"vector", "keyword"} =>
          /\ r.path = "vector" <=>
                (faiss_index # None /\ sentence_transformer /\ r.caught = "none")
          /\ r.path = "keyword" =>
                r.result = _fallback_retrieve(document_chunks, r.query, r.top_k)

\* C20: retrieve never raises for a query string and degrades from the
\* hybrid/corrective path to vector-only retrieval and from there to keyword
\* matching; rag_pipeline and generate_response always return: rag_pipeline
\* the retrieved evidence or none, generate_response the formatted evidence, a
\* template answer or the prompt for a more specific question.
C20_BestEffortNeverRaises ==
    /\ last.op = "retrieve" => BestEffort(last)
    /\ last.op = "generate_response" =>
          /\ BestEffort(last.retrieval)
          /\ last.pipeline.outcome = "return"
          /\ last.pipeline.chunks \in {<<>>, last.retrieval.result}
          /\ last.response.kind \in {"prompt", "rag", "template"}
          /\ last.response.kind = "rag" => last.response.chunks = last.retrieval.result

\* the hybrid retriever failed, the embedding call of the vector-only path
\* raised, and the user got the keyword matches
C20_Witness ==
    /\ last.op = "generate_response"
    /\ hybrid_retriever # None
    /\ last.retrieval.path = "keyword"
    /\ last.retrieval.caught = "encode"
    /\ last.response.kind = "rag"

\* the results of a vector-only retrieval that stand for a slot the index
\* did not fill: their rank lies beyond the vectors of the searched index
MissingSlotResults(result, ix) ==
    SelectSeq(result, LAMBDA r : r.rank > NTotal(ix))

\* C27: on the vector-only path no chunk is returned for a slot that the
\* index, holding fewer than top_k vectors, reported as missing (index -1)
C27_NoChunkForMissingSlot ==
    (last.op = "retrieve" /\ last.path = "vector")
        => Len(MissingSlotResults(last.result, last.searched)) = 0

\* a vector-only retrieval that asked for more slots than the index holds
C27_Witness ==
    /\ last.op = "retrieve"
    /\ last.path = "vector"
    /\ last.top_k > NTotal(last.searched)
    /\ NTotal(last.searched) > 0

\* the latest call was initialize_faiss_index and its _load_existing_index
\* reported a miss
LoadMissed ==
    /\ last.op = "initialize_faiss_index"
    /\ last.load.ran
    /\ last.load.outcome = "miss"

\* C28: a load that reports a miss, for any reason, leaves faiss_index equal
\* to its value before the call, so an initialize_faiss_index call that then
\* fails to build ends with the index it started with
C28_MissLeavesIndexUnchanged ==
    LoadMissed =>
        /\ last.load.after = last.load.before
        /\ (last.ret = "False" /\ last.raised = "encode") => faiss_index = last.load.before

\* a load that found all three files readable and still reported a miss
C28_Witness ==
    /\ LoadMissed
    /\ last.load.index_file.state = "ok"
    /\ last.load.emb_file.state = "ok"
    /\ last.load.meta_file.state = "ok"
    /\ last.load.meta_file.content.fingerprint = last.load.current_fp

\* the latest call was a retrieve whose first hybrid pass returned a full
\* list of top_k results
FullFirstPass ==
    /\ last.op = "retrieve"
    /\ last.calls >= 1
    /\ Len(last.first) = last.top_k

\* the first-pass list was returned as it was, with no second pass
ReturnedAsIs ==
    /\ last.path = "hybrid"
    /\ ~last.corrective
    /\ last.calls = 1
    /\ last.result = last.first

\* C29: for every top_k >= 3, a first pass that returns a full list of top_k
\* results is not weak: no second pass runs and the list is returned as is
C29_FullFirstPassNotWeak ==
    (FullFirstPass /\ last.top_k >= 3) => ReturnedAsIs

\* C29 as stated, for every top_k >= 1
C29_AsStated == FullFirstPass => ReturnedAsIs

\* a full first pass of at least three results
C29_Witness == FullFirstPass /\ last.top_k >= 3

\* the latest call was an initialize_faiss_index that returned True
InitializeSucceeded == last.op = "initialize_faiss_index" /\ last.ret = "True"

\* C30: whenever initialize_faiss_index reports success, by loading or by
\* building, the index holds one vector per chunk of the current corpus
C30_SuccessMeansOneVectorPerChunk ==
    InitializeSucceeded =>
        /\ NTotal(faiss_index) = Len(knowledge_chunks)
        /\ NTotal(faiss_index) = Len(document_chunks)

\* a success through the loading of a persisted index
C30_Witness == InitializeSucceeded /\ last.load.ran /\ last.load.outcome = "hit"

\* the three files are what one completed _save_index call writes: the
\* matrix has the rows of the index in the index file, and the metadata is
\* the record of that index
FromOneBuild(ixf, embf, metaf) ==
    /\ ixf.state = "ok"
    /\ embf.state = "ok"
    /\ metaf.state = "ok"
    /\ embf.content.rows = NTotal(ixf.content)
    /\ metaf.content = Meta(ixf.content,
                            ComputeCorpusFingerprint(ixf.content.texts, ixf.content.model),
                            ixf.content.model)

\* C23: a persisted record left by an interrupted _save_index is detected by
\* the next load: a load that reports a hit read three files that come from
\* one and the same completed build
C23_PartialWriteDetected ==
    (LoadRan /\ last.load.outcome = "hit")
        => FromOneBuild(last.load.index_file, last.load.emb_file, last.load.meta_file)

\* a load that read the files an interrupted save left behind: all three
\* exist and they are not the files of one build
C23_Witness ==
    /\ LoadRan
    /\ Exists(last.load.index_file)
    /\ Exists(last.load.emb_file)
    /\ Exists(last.load.meta_file)
    /\ ~FromOneBuild(last.load.index_file, last.load.emb_file, last.load.meta_file)

\* C25: semantic_pack flushes once target_tokens is reached: after each
\* paragraph has been processed, the pending buffer holds fewer than
\* target_tokens tokens
C25_PendingBelowTarget ==
    last.op = "semantic_pack" =>
        \A i \in 1..Len(last.pending) : last.pending[i] < last.target_tokens

\* a call that went through all of three or more paragraphs and flushed on
\* reaching the target
C25_Witness ==
    /\ last.op = "semantic_pack"
    /\ Len(last.paragraphs) >= 3
    /\ Len(last.pending) = Len(last.paragraphs)
    /\ \E i \in 2..Len(last.pending) : last.pending[i - 1] > 0 /\ last.pending[i] = 0

\* C24: after load_knowledge_chunks every chunk of the corpus has a
\* non-empty text of at most max_tokens whitespace-delimited tokens, whatever
\* the length of the source text it came from
C24_CorpusChunksBounded ==
    last.op = "load_knowledge_chunks" =>
        \A i \in 1..Len(knowledge_chunks) :
            /\ knowledge_chunks[i] # ""
            /\ Len(Split(knowledge_chunks[i])) <= DefaultMaxTokens

\* a corpus built from a text long enough to be cut into several chunks
C24_Witness ==
    /\ last.op = "load_knowledge_chunks"
    /\ Len(last.all_texts) = 1
    /\ Len(Split(last.all_texts[1])) > ChunkAboveWords
    /\ Len(knowledge_chunks) > 1

\* C26: for every text, the gazetteer list of EntityExtractor.extract is the
\* sorted set of the gazetteer terms that occur in the lower-cased text as
\* substrings: the capitalized-word and capitalized-phrase heuristics add
\* nothing, and no term outside the gazetteer is returned
C26_GazetteerIsSubstringMatches ==
    last.op = "extract" =>
        /\ last.ret.gazetteer
              = SelectSeq(SortedGazetteer, LAMBDA g : IsSubstring(g, Lower(last.text)))
        /\ Range(last.ret.gazetteer) \subseteq GAZETTEER

\* a text in which both heuristics found a gazetteer term
C26_Witness ==
    /\ last.op = "extract"
    /\ last.ret.caps # {}
    /\ \E i \in 1..Len(last.ret.phrases) : Len(Split(last.ret.phrases[i])) >= 2
    /\ Len(last.ret.gazetteer) >= 2

\* the latest step was a retrieve call made while a build was in progress
ServedDuringBuild == last.op = "threads" /\ last.step.kind = "retrieve" /\ last.step.during

\* C21: a retrieve call interleaved with an index rebuild is served from a
\* complete index: it never searches an empty or partially populated index,
\* nor an index paired with the chunk list of another corpus build
C21_ServedFromCompleteIndex ==
    (ServedDuringBuild /\ last.step.searched # None)
        => /\ NTotal(last.step.searched) > 0
           /\ last.step.searched.texts = last.step.chunks

\* a retrieve call during a build that searched the previous, complete index
C21_Witness ==
    /\ ServedDuringBuild
    /\ last.step.path \in {"hybrid", "corrective"}
    /\ last.step.searched = Index(CorpusA, config.EMBEDDING_MODEL)
    /\ faiss_index # last.step.searched

\* no call of initialize_faiss_index is in progress
Quiescent == last.op = "threads" /\ Building = {}

\* the in-memory index holds the vectors of one corpus, and index file,
\* matrix and metadata agree on the number of vectors
ArtifactsOfOneBuild ==
    /\ faiss_index.texts \in RetrievalCorpora
    /\ NTotal(index_file.content) = emb_file.content.rows
    /\ meta_file.content.vectors = emb_file.content.rows

\* C22: at most one index build is in progress at any time, so that neither
\* the persisted record nor the in-memory index combines artifacts of two
\* builds: with no build in progress the index holds the vectors of one
\* corpus and the three files agree
C22_OneBuildAtATime ==
    /\ last.op = "threads" => Cardinality(Building) <= 1
    /\ Quiescent => ArtifactsOfOneBuild

\* two builds have run and ended, and left the artifacts of one build
C22_Witness ==
    /\ Quiescent
    /\ \A t \in Builders : last.builds[t].pc = "returned"
    /\ ArtifactsOfOneBuild

====
